---- MODULE Spec2Model ----
(***************************************************************************)
(* The five libiio streaming examples (AD4630, AD4696, AD7768, ADRV9002    *)
(* and ADRV9002 DDS) as one state machine.  A run is one execution of one  *)
(* of the programs: prog selects the program, argc and the build options   *)
(* are fixed at start, every step of main is one action, the outcome of    *)
(* every library call is chosen by the environment, and the signal handler *)
(* may run between any two steps once it is installed.  log is the trace   *)
(* of library calls the program has made.                                  *)
(***************************************************************************)
EXTENDS Integers, Sequences, FiniteSets, TLC

\* ---------------------------------------------------------------- bounds
MaxIter == 2        \* iterations of the streaming loop a run may start
MaxArgc == 3        \* argc ranges over 1..MaxArgc
MaxSamples == 2     \* samples a raw read hands to the AD4630 sample loop
MaxChannel == 1     \* the channel argument of a DDS routine ranges over 0..MaxChannel
MaxFrames == 2      \* IQ frames a refill leaves in the RX buffer

\* ------------------------------------------------------ program constants
BUFFER_LENGTH == 400
MODES_REG == 32
MODES_DEFAULT == 130
MODE_REG_VAL == 1
DAC_MODE_REGISTER == 1048
EXIT_FAILURE == 1
ENODEV == 19
EIO == 5
LANE_MD == 2
CLK_MD == 0
DDR_MD == 0
OUT_DATA_MD == 1
AD7768_CHANNEL_NUMBER == 4
GARBAGE == 77       \* stands for any nonzero indeterminate int
MiS == 1048576      \* 1024 * 1024

Programs == {"ad4630", "ad4696", "ad7768", "adrv9002", "adrv9002dds"}
ADPrograms == {"ad4630", "ad4696", "ad7768"}

VARIABLES
  prog,            \* which example runs
  argc,            \* its argument count
  out_data_md,     \* AD4630 build option OUT_DATA_MD
  ddr_md, clk_md, lane_md,   \* AD4630 build options DDR_MD, CLK_MD, LANE_MD
  channel_number,  \* AD4630 build option CHANNEL_NUMBER
  tx_dac_mode,     \* ADRV9002 build option TX_DAC_MODE
  args,            \* the arguments of a configuration routine called on its own
  pc,              \* position in main
  result,          \* "running", "exit", "abort" or "crash"
  status,          \* the exit status once result = "exit"
  ret,             \* the ADRV9002 programs' int ret
  handler,         \* the signal handler is installed
  stop,            \* static bool stop
  ctx, rxbuf, txbuf,   \* "NULL", "valid" or "freed"
  rxchan,              \* "NULL" or "valid"
  rx_chan, tx_chan,    \* [0..1 -> "NULL" or "valid"]
  log,             \* trace of library calls and loop-head checks
  iter,            \* iterations of the streaming loop started
  rawbuf,          \* the data as the last read delivered it (AD4630: scratch
                   \* buffer after the raw read, ADRV9002: RX buffer after refill)
  printed,         \* AD4630: the values printed from the scratch buffer
  rxdata,          \* ADRV9002: the int16 elements of the RX buffer
  sample_size,     \* AD examples: the sample size of the last loop iteration
  bytes            \* AD examples: the result of its raw read

build == <<prog, argc, out_data_md, ddr_md, clk_md, lane_md, channel_number, tx_dac_mode, args>>
ending == <<result, status>>
sigstate == <<handler, stop>>
handles == <<ctx, rxbuf, txbuf, rxchan, rx_chan, tx_chan>>
samples == <<rawbuf, printed, rxdata, sample_size, bytes>>
vars == <<build, pc, ending, ret, sigstate, handles, log, iter, samples>>

\* ---------------------------------------------------------------- helpers
\* One entry of the trace: the library function, the object it acts on, an
\* integer argument and whether it succeeded.  For the calls of the streaming
\* loop (refill, push) and for the loop-head check, after_stop tells whether
\* the stop flag was already set when the call started.
Ev(op, obj, val, ok) ==
  [op |-> op, obj |-> obj, val |-> val, ok |-> ok, after_stop |-> FALSE]

LoopEv(op, obj, val, ok) ==
  [op |-> op, obj |-> obj, val |-> val, ok |-> ok, after_stop |-> stop]

\* exit(n) and return n from main
Exit(n) == /\ pc' = "done" /\ result' = "exit" /\ status' = n

\* the failing branch of IIO_ENSURE: abort()
Abort == /\ pc' = "done" /\ result' = "abort" /\ UNCHANGED status

\* the process is killed by the fault of an invalid memory access
Crash == /\ pc' = "done" /\ result' = "crash" /\ UNCHANGED status

Goto(l) == /\ pc' = l /\ UNCHANGED ending

\* IIO_ENSURE(expr)
IIO_ENSURE(expr, l) == IF expr THEN Goto(l) ELSE Abort

At(p, l) == prog = p /\ pc = l

\* release a handle the way shutdown() and cleanup() do: only a non-null
\* pointer is passed to the library, and the pointer itself is not cleared
Released(h) == IF h = "NULL" THEN h ELSE "freed"

\* the trace of a release that is guarded by "if (handle)"
IfHeld(h, e) == IF h = "NULL" THEN <<>> ELSE <<e>>

\* the scratch buffer is freed and the locals of the loop body go out of
\* scope when an iteration of the streaming loop ends
EndOfBody == /\ rawbuf' = <<>> /\ printed' = <<>> /\ sample_size' = 0 /\ bytes' = 0

\* the name the trace gives to a register address
Reg(addr) ==
  CASE addr = MODES_REG -> "MODES_REG"
    [] addr = DAC_MODE_REGISTER -> "DAC_MODE_REGISTER"

\* fmt->length / 8 * fmt->repeat
SampleSize(fmt) == (fmt.length \div 8) * fmt.repeat

\* the data formats a channel may report
Formats == { [length |-> l, repeat |-> r] : l \in {8, 16, 32}, r \in {1, 2} }

\* results of iio_channel_read_raw for a request of len bytes: an error,
\* nothing, a short read of whole samples, or the full length
RawResults(ss) == {-EIO, 0, ss * BUFFER_LENGTH} \cup { k * ss : k \in 0..MaxSamples }

\* HUGE stands for a quotient no allocation can hold: the value of a negative
\* ssize_t converted to the unsigned type of sample_size before the division
HUGE == 2147483647
LoopBound(nb, ss) == IF nb < 0 THEN HUGE ELSE nb \div ss

\* the sample loop reads elements of elem bytes at indexes 0 .. n-1 of a
\* scratch buffer of ss * BUFFER_LENGTH bytes
InBounds(n, elem, ss) == n = 0 \/ (n # HUGE /\ n * elem <= ss * BUFFER_LENGTH)

\* ----------------------------------------------------------------- AD7768
\* 32-bit words the raw read may deliver: bit 23 set (the shifted word is
\* negative) and a nonzero top byte (shifted out)
Words32 == {8388609, -16777215}

\* the scratch buffer seen as the n int32_t words the loop reads: the first
\* words as the read delivered them, then zero words
Filled(raw, n) == [s \in 1..n |-> IF s <= Len(raw) THEN raw[s] ELSE 0]

\* ((int32_t *)buf)[sample] << 8 on 32 bits: the low 24 bits of the word
\* become the high 24 bits of the result, bit 23 its sign
Shl8(w) ==
  LET lo == w % (2 ^ 24)
  IN  IF lo >= 2 ^ 23 THEN (lo - 2 ^ 23) * (2 ^ 8) - 2 ^ 30 - 2 ^ 30
      ELSE lo * (2 ^ 8)

\* the values the for loop prints from a buffer of words
PrintLoop(words) == [s \in 1..Len(words) |-> Shl8(words[s])]

AD7768_signal ==
  /\ At("ad7768", "start")
  /\ handler' = TRUE
  /\ Goto("create_ctx")
  /\ UNCHANGED <<build, ret, stop, handles, log, iter, samples>>

AD7768_handle_sig ==
  /\ prog = "ad7768" /\ handler /\ result = "running"
  /\ stop' = TRUE
  /\ UNCHANGED <<build, pc, ending, ret, handler, handles, log, iter, samples>>

\* a main that ignores the URI it is given
AD7768_create_context_default ==
  /\ At("ad7768", "create_ctx")
  /\ \/ /\ argc <= 2
        /\ \E ok \in BOOLEAN :
             /\ log' = Append(log, Ev("iio_create_default_context", "ctx", 0, ok))
             /\ ctx' = IF ok THEN "valid" ELSE "NULL"
             /\ IIO_ENSURE(ok, "devices_count")
     \/ /\ argc > 2
        /\ Goto("devices_count")
        /\ UNCHANGED <<ctx, log>>
  /\ UNCHANGED <<build, ret, sigstate, rxbuf, txbuf, rxchan, rx_chan, tx_chan, iter, samples>>

AD7768_create_context ==
  /\ At("ad7768", "create_ctx")
  /\ \/ /\ argc = 1
        /\ \E ok \in BOOLEAN :
             /\ log' = Append(log, Ev("iio_create_default_context", "ctx", 0, ok))
             /\ ctx' = IF ok THEN "valid" ELSE "NULL"
             /\ IIO_ENSURE(ok, "devices_count")
     \/ /\ argc = 2
        /\ \E ok \in BOOLEAN :
             /\ log' = Append(log, Ev("iio_create_context_from_uri", "ctx", 0, ok))
             /\ ctx' = IF ok THEN "valid" ELSE "NULL"
             /\ IIO_ENSURE(ok, "devices_count")
     \/ /\ argc > 2
        /\ Goto("devices_count")
        /\ UNCHANGED <<ctx, log>>
  /\ UNCHANGED <<build, ret, sigstate, rxbuf, txbuf, rxchan, rx_chan, tx_chan, iter, samples>>

AD7768_devices_count ==
  /\ At("ad7768", "devices_count")
  /\ \E n \in 0..1 :
       /\ log' = Append(log, Ev("iio_context_get_devices_count", "ctx", n, ctx = "valid"))
       /\ IF ctx = "valid" THEN IIO_ENSURE(n > 0, "stream_dev") ELSE Crash
  /\ UNCHANGED <<build, ret, sigstate, handles, iter, samples>>

AD7768_get_stream_dev ==
  /\ At("ad7768", "stream_dev")
  /\ \E ok \in BOOLEAN :
       /\ log' = Append(log, Ev("iio_context_find_device", "axi-ad7768-adc", 0, ok))
       /\ IIO_ENSURE(ok, "cfg_ch")
  /\ UNCHANGED <<build, ret, sigstate, handles, iter, samples>>

AD7768_cfg_streaming_ch ==
  /\ At("ad7768", "cfg_ch")
  /\ \E dev \in BOOLEAN, chn \in BOOLEAN :
       /\ log' = log \o <<Ev("iio_context_find_device", "axi-ad7768-adc", 0, dev)>>
                     \o (IF dev THEN <<Ev("iio_device_find_channel", "voltage",
                                          AD7768_CHANNEL_NUMBER, chn)>>
                                ELSE <<>>)
       /\ IIO_ENSURE(dev /\ chn, "stream_ch")
  /\ UNCHANGED <<build, ret, sigstate, handles, iter, samples>>

AD7768_get_stream_ch ==
  /\ At("ad7768", "stream_ch")
  /\ \E ok \in BOOLEAN :
       /\ log' = Append(log, Ev("iio_device_find_channel", "voltage",
                                AD7768_CHANNEL_NUMBER, ok))
       /\ rxchan' = IF ok THEN "valid" ELSE "NULL"
       /\ IIO_ENSURE(ok, "enable")
  /\ UNCHANGED <<build, ret, sigstate, ctx, rxbuf, txbuf, rx_chan, tx_chan, iter, samples>>

AD7768_channel_enable ==
  /\ At("ad7768", "enable")
  /\ log' = Append(log, Ev("iio_channel_enable", "rxchan", 0, TRUE))
  /\ Goto("create_buffer")
  /\ UNCHANGED <<build, ret, sigstate, handles, iter, samples>>

\* a main that does not check the buffer it created
AD7768_create_buffer_unchecked ==
  /\ At("ad7768", "create_buffer")
  /\ \E ok \in BOOLEAN :
       /\ log' = Append(log, Ev("iio_device_create_buffer", "rxbuf", BUFFER_LENGTH, ok))
       /\ rxbuf' = IF ok THEN "valid" ELSE "NULL"
       /\ Goto("while")
  /\ UNCHANGED <<build, ret, sigstate, ctx, txbuf, rxchan, rx_chan, tx_chan, iter, samples>>

AD7768_create_buffer ==
  /\ At("ad7768", "create_buffer")
  /\ \E ok \in BOOLEAN :
       /\ log' = Append(log, Ev("iio_device_create_buffer", "rxbuf", BUFFER_LENGTH, ok))
       /\ rxbuf' = IF ok THEN "valid" ELSE "NULL"
       /\ Goto(IF ok THEN "while" ELSE "shutdown")
  /\ UNCHANGED <<build, ret, sigstate, ctx, txbuf, rxchan, rx_chan, tx_chan, iter, samples>>

\* a loop that tests the flag only from its second iteration on
AD7768_while_first_unchecked ==
  /\ At("ad7768", "while")
  /\ stop \/ iter < MaxIter
  /\ log' = Append(log, LoopEv("while", "stop", 0, TRUE))
  /\ iter' = IF stop /\ iter > 0 THEN iter ELSE iter + 1
  /\ Goto(IF stop /\ iter > 0 THEN "shutdown" ELSE "refill")
  /\ UNCHANGED <<build, ret, sigstate, handles, samples>>

AD7768_while ==
  /\ At("ad7768", "while")
  /\ stop \/ iter < MaxIter
  /\ log' = Append(log, LoopEv("while", "stop", 0, TRUE))
  /\ iter' = IF stop THEN iter ELSE iter + 1
  /\ EndOfBody
  /\ Goto(IF stop THEN "shutdown" ELSE "refill")
  /\ UNCHANGED <<build, ret, sigstate, handles, rxdata>>

AD7768_refill ==
  /\ At("ad7768", "refill")
  /\ \E ok \in BOOLEAN :
       /\ log' = Append(log, LoopEv("iio_buffer_refill", "rxbuf", 0, ok))
       /\ Goto(IF ok THEN "samples" ELSE "shutdown")
  /\ UNCHANGED <<build, ret, sigstate, handles, iter, samples>>

AD7768_samples ==
  /\ At("ad7768", "samples")
  /\ \E fmt \in Formats, mem \in BOOLEAN :
       LET ss == SampleSize(fmt)
           fm == Ev("iio_channel_get_data_format", "rxchan", 0, TRUE)
       IN  IF ~mem
           THEN /\ log' = log \o <<fm, Ev("malloc", "buf", 0, FALSE)>>
                /\ Goto("shutdown")
                /\ sample_size' = ss
                /\ UNCHANGED <<rawbuf, printed, bytes>>
           ELSE \E nb \in RawResults(ss) :
                  LET n == LoopBound(nb, ss)
                      m == IF n < MaxSamples THEN n ELSE MaxSamples
                  IN  /\ log' = log \o <<fm, Ev("malloc", "buf", 0, TRUE),
                                       Ev("iio_channel_read_raw", "rxchan", 0, nb >= 0)>>
                      /\ sample_size' = ss /\ bytes' = nb
                      /\ \E raw \in [1..m -> Words32] :
                           \/ /\ n # HUGE
                              /\ rawbuf' = Filled(raw, n)
                              /\ printed' = PrintLoop(rawbuf')
                              /\ Goto("while")
                           \/ /\ ~InBounds(n, 4, ss)
                              /\ rawbuf' = raw
                              /\ printed' = PrintLoop(raw)
                              /\ Crash
  /\ UNCHANGED <<build, ret, sigstate, handles, iter, rxdata>>

AD7768_shutdown ==
  /\ At("ad7768", "shutdown")
  /\ log' = log \o IfHeld(rxbuf, Ev("iio_buffer_destroy", "rxbuf", 0, TRUE))
                \o IfHeld(rxchan, Ev("iio_channel_disable", "rxchan", 0, TRUE))
                \o IfHeld(ctx, Ev("iio_context_destroy", "ctx", 0, TRUE))
  /\ rxbuf' = Released(rxbuf)
  /\ ctx' = Released(ctx)
  /\ Exit(0)
  /\ UNCHANGED <<build, ret, sigstate, txbuf, rxchan, rx_chan, tx_chan, iter, samples>>

AD7768 ==
  \/ AD7768_signal \/ AD7768_create_context \/ AD7768_devices_count
  \/ AD7768_get_stream_dev \/ AD7768_cfg_streaming_ch \/ AD7768_get_stream_ch
  \/ AD7768_channel_enable \/ AD7768_create_buffer \/ AD7768_while
  \/ AD7768_refill \/ AD7768_samples \/ AD7768_shutdown

\* ----------------------------------------------------------------- AD4630
\* x << k and a | b on unsigned values
Shl(x, k) == x * (2 ^ k)
RECURSIVE BitOr(_, _)
BitOr(a, b) ==
  IF a = 0 THEN b
  ELSE IF b = 0 THEN a
  ELSE (IF a % 2 = 1 \/ b % 2 = 1 THEN 1 ELSE 0) + 2 * BitOr(a \div 2, b \div 2)

\* a packing whose CLK_MD field starts at bit 3
PackModes_clk3(lane, clk, ddr, out) ==
  BitOr(BitOr(BitOr(Shl(lane, 6), Shl(clk, 3)), Shl(ddr, 3)), out)

\* ((LANE_MD << 6) | (CLK_MD << 4) | (DDR_MD << 3) | OUT_DATA_MD)
PackModes(lane, clk, ddr, out) ==
  BitOr(BitOr(BitOr(Shl(lane, 6), Shl(clk, 4)), Shl(ddr, 3)), out)

\* the value main writes to the modes register
ModesValue == PackModes(lane_md, clk_md, ddr_md, out_data_md)

\* #if (OUT_DATA_MD == 1 || OUT_DATA_MD == 2)
VCOM_ENABLE == out_data_md \in {1, 2}

\* the 32-bit halves a raw word is made of, as int32_t values:
\* 0x80000103 and 0x12345678
Halves == {-2147483389, 305419896}

\* the 64-bit words a raw read may deliver, as <<low half, high half>>:
\* the halves differ, so that a formatting of the wrong half shows
Words64 == { w \in Halves \X Halves : w[1] # w[2] }

\* a buffer of 64-bit words seen as int32_t elements (little endian)
Elements32(ws) == [i \in 1..(2 * Len(ws)) |-> ws[(i + 1) \div 2][2 - (i % 2)]]

\* x >> k on an int32_t
Asr(x, k) == x \div (2 ^ k)

\* a formatting that takes the low half whatever the channel
FormatSample_low(lo, hi, cn, md) ==
  CASE md = 0 -> Asr(lo, 8)
    [] md = 1 -> Asr(lo, 16)
    [] md = 2 -> Asr(lo, 8)
    [] md = 3 -> Asr(lo, 2)
    [] md = 4 -> lo

\* the value stored for one sample: lo and hi are the low and the high 32
\* bits of the 64-bit word, cn is CHANNEL_NUMBER, md is OUT_DATA_MD
FormatSample(lo, hi, cn, md) ==
  LET w == IF cn = 0 THEN lo ELSE hi
  IN  CASE md = 0 -> Asr(w, 8)
        [] md = 1 -> Asr(w, 16)
        [] md = 2 -> Asr(w, 8)
        [] md = 3 -> Asr(w, 2)
        [] md = 4 -> w

\* or_sync of one sample: the two low bits in mode 3, else its initial 0
OrSync(lo, hi, cn, md) == IF md = 3 THEN (IF cn = 0 THEN lo ELSE hi) % 4 ELSE 0

\* the for loop over the scratch buffer: buf is the buffer as int32_t
\* elements (little endian, so the int64_t at index s is elements 2s and
\* 2s+1), each result is stored in place at int32_t index s and printed
\* from there together with or_sync
RECURSIVE SampleLoop(_, _, _, _)
SampleLoop(buf, s, n, out) ==
  IF s >= n THEN out
  ELSE LET lo == buf[2 * s + 1]
           hi == buf[2 * s + 2]
           nb == [buf EXCEPT ![s + 1] = FormatSample(lo, hi, channel_number, out_data_md)]
           line == [val |-> nb[s + 1],
                    or_sync |-> OrSync(lo, hi, channel_number, out_data_md)]
       IN  SampleLoop(nb, s + 1, n, Append(out, line))

AD4630_signal ==
  /\ At("ad4630", "start")
  /\ handler' = TRUE
  /\ Goto("create_ctx")
  /\ UNCHANGED <<build, ret, stop, handles, log, iter, samples>>

AD4630_handle_sig ==
  /\ prog = "ad4630" /\ handler /\ result = "running"
  /\ stop' = TRUE
  /\ UNCHANGED <<build, pc, ending, ret, handler, handles, log, iter, samples>>

AD4630_create_context ==
  /\ At("ad4630", "create_ctx")
  /\ \/ /\ argc = 1
        /\ \E ok \in BOOLEAN :
             /\ log' = Append(log, Ev("iio_create_default_context", "ctx", 0, ok))
             /\ ctx' = IF ok THEN "valid" ELSE "NULL"
             /\ IIO_ENSURE(ok, "devices_count")
     \/ /\ argc = 2
        /\ \E ok \in BOOLEAN :
             /\ log' = Append(log, Ev("iio_create_context_from_uri", "ctx", 0, ok))
             /\ ctx' = IF ok THEN "valid" ELSE "NULL"
             /\ IIO_ENSURE(ok, "devices_count")
     \/ /\ argc > 2
        /\ Goto("devices_count")
        /\ UNCHANGED <<ctx, log>>
  /\ UNCHANGED <<build, ret, sigstate, rxbuf, txbuf, rxchan, rx_chan, tx_chan, iter, samples>>

AD4630_devices_count ==
  /\ At("ad4630", "devices_count")
  /\ \E n \in 0..1 :
       /\ log' = Append(log, Ev("iio_context_get_devices_count", "ctx", n, ctx = "valid"))
       /\ IF ctx = "valid" THEN IIO_ENSURE(n > 0, "stream_dev") ELSE Crash
  /\ UNCHANGED <<build, ret, sigstate, handles, iter, samples>>

AD4630_get_stream_dev ==
  /\ At("ad4630", "stream_dev")
  /\ \E ok \in BOOLEAN :
       /\ log' = Append(log, Ev("iio_context_find_device", "ad4630", 0, ok))
       /\ IIO_ENSURE(ok, "modes_reg")
  /\ UNCHANGED <<build, ret, sigstate, handles, iter, samples>>

AD4630_modes_reg ==
  /\ At("ad4630", "modes_reg")
  /\ \E w \in BOOLEAN, r \in BOOLEAN :
       log' = log \o <<Ev("iio_device_reg_write", Reg(MODES_REG), ModesValue, w),
                        Ev("iio_device_reg_read", Reg(MODES_REG), 0, r)>>
  /\ Goto("cfg_ch")
  /\ UNCHANGED <<build, ret, sigstate, handles, iter, samples>>

AD4630_cfg_streaming_ch ==
  /\ At("ad4630", "cfg_ch")
  /\ \E dev \in BOOLEAN, chn \in BOOLEAN :
       /\ log' = log \o <<Ev("iio_context_find_device", "ad4630", 0, dev)>>
                     \o (IF dev THEN <<Ev("iio_device_find_channel", "voltage",
                                          channel_number, chn)>>
                                ELSE <<>>)
       /\ IIO_ENSURE(dev /\ chn, "stream_ch")
  /\ UNCHANGED <<build, ret, sigstate, handles, iter, samples>>

AD4630_get_stream_ch ==
  /\ At("ad4630", "stream_ch")
  /\ \E ok \in BOOLEAN :
       /\ log' = Append(log, Ev("iio_device_find_channel", "voltage",
                                channel_number, ok))
       /\ rxchan' = IF ok THEN "valid" ELSE "NULL"
       /\ IIO_ENSURE(ok, "enable")
  /\ UNCHANGED <<build, ret, sigstate, ctx, rxbuf, txbuf, rx_chan, tx_chan, iter, samples>>

AD4630_channel_enable ==
  /\ At("ad4630", "enable")
  /\ log' = Append(log, Ev("iio_channel_enable", "rxchan", 0, TRUE))
  /\ Goto("create_buffer")
  /\ UNCHANGED <<build, ret, sigstate, handles, iter, samples>>

AD4630_create_buffer ==
  /\ At("ad4630", "create_buffer")
  /\ \E ok \in BOOLEAN :
       /\ log' = Append(log, Ev("iio_device_create_buffer", "rxbuf", BUFFER_LENGTH, ok))
       /\ rxbuf' = IF ok THEN "valid" ELSE "NULL"
       /\ Goto(IF ok THEN "while" ELSE "shutdown")
  /\ UNCHANGED <<build, ret, sigstate, ctx, txbuf, rxchan, rx_chan, tx_chan, iter, samples>>

AD4630_while ==
  /\ At("ad4630", "while")
  /\ stop \/ iter < MaxIter
  /\ log' = Append(log, LoopEv("while", "stop", 0, TRUE))
  /\ iter' = IF stop THEN iter ELSE iter + 1
  /\ Goto(IF stop THEN "restore_reg" ELSE "refill")
  /\ UNCHANGED <<build, ret, sigstate, handles, samples>>

AD4630_refill ==
  /\ At("ad4630", "refill")
  /\ \E ok \in BOOLEAN :
       /\ log' = Append(log, LoopEv("iio_buffer_refill", "rxbuf", 0, ok))
       /\ Goto(IF ~ok THEN "shutdown" ELSE IF VCOM_ENABLE THEN "vcom" ELSE "samples")
  /\ UNCHANGED <<build, ret, sigstate, handles, iter, samples>>

\* an errchk that asserts instead of shutting down
AD4630_rd_ch_lli_ensure ==
  /\ At("ad4630", "vcom")
  /\ \E ok \in BOOLEAN :
       /\ log' = Append(log, Ev("iio_channel_attr_read_longlong", "common_mode_voltage", 0, ok))
       /\ IIO_ENSURE(ok, "samples")
  /\ UNCHANGED <<build, ret, sigstate, handles, iter, samples>>

AD4630_rd_ch_lli ==
  /\ At("ad4630", "vcom")
  /\ \E ok \in BOOLEAN :
       /\ log' = Append(log, Ev("iio_channel_attr_read_longlong", "common_mode_voltage", 0, ok))
       /\ Goto(IF ok THEN "samples" ELSE "shutdown")
  /\ UNCHANGED <<build, ret, sigstate, handles, iter, samples>>

AD4630_samples ==
  /\ At("ad4630", "samples")
  /\ \E fmt \in Formats, mem \in BOOLEAN :
       LET ss == SampleSize(fmt)
           fm == Ev("iio_channel_get_data_format", "rxchan", 0, TRUE)
       IN  IF ~mem
           THEN /\ log' = log \o <<fm, Ev("malloc", "buf", 0, FALSE)>>
                /\ Goto("shutdown")
                /\ sample_size' = ss
                /\ UNCHANGED <<rawbuf, printed, bytes>>
           ELSE \E nb \in RawResults(ss) :
                  LET n == LoopBound(nb, ss)
                      m == IF n < MaxSamples THEN n ELSE MaxSamples
                  IN  /\ log' = log \o <<fm, Ev("malloc", "buf", 0, TRUE),
                                       Ev("iio_channel_read_raw", "rxchan", 0, nb >= 0)>>
                      /\ sample_size' = ss /\ bytes' = nb
                      /\ \E ws \in [1..m -> Words64] :
                           /\ rawbuf' = Elements32(ws)
                           /\ printed' = SampleLoop(rawbuf', 0, m, <<>>)
                      /\ IF InBounds(n, 8, ss)
                         THEN Goto("free")
                         ELSE IF n = HUGE THEN Crash
                              ELSE Crash \/ Goto("free")
  /\ UNCHANGED <<build, ret, sigstate, handles, iter, rxdata>>

AD4630_free ==
  /\ At("ad4630", "free")
  /\ EndOfBody
  /\ Goto("while")
  /\ UNCHANGED <<build, ret, sigstate, handles, log, iter, rxdata>>

AD4630_restore_reg ==
  /\ At("ad4630", "restore_reg")
  /\ \E w \in BOOLEAN, r \in BOOLEAN :
       log' = log \o <<Ev("iio_device_reg_write", Reg(MODES_REG), MODES_DEFAULT, w),
                        Ev("iio_device_reg_read", Reg(MODES_REG), 0, r)>>
  /\ Goto("shutdown")
  /\ UNCHANGED <<build, ret, sigstate, handles, iter, samples>>

AD4630_shutdown ==
  /\ At("ad4630", "shutdown")
  /\ log' = log \o IfHeld(rxbuf, Ev("iio_buffer_destroy", "rxbuf", 0, TRUE))
                \o IfHeld(rxchan, Ev("iio_channel_disable", "rxchan", 0, TRUE))
                \o IfHeld(ctx, Ev("iio_context_destroy", "ctx", 0, TRUE))
  /\ rxbuf' = Released(rxbuf)
  /\ ctx' = Released(ctx)
  /\ Exit(0)
  /\ UNCHANGED <<build, ret, sigstate, txbuf, rxchan, rx_chan, tx_chan, iter, samples>>

AD4630 ==
  \/ AD4630_signal \/ AD4630_create_context \/ AD4630_devices_count
  \/ AD4630_get_stream_dev \/ AD4630_modes_reg \/ AD4630_cfg_streaming_ch \/ AD4630_get_stream_ch
  \/ AD4630_channel_enable \/ AD4630_create_buffer \/ AD4630_while
  \/ AD4630_refill \/ AD4630_rd_ch_lli \/ AD4630_free \/ AD4630_restore_reg \/ AD4630_samples \/ AD4630_shutdown

\* ----------------------------------------------------------------- AD4696
AD4696_signal ==
  /\ At("ad4696", "start")
  /\ handler' = TRUE
  /\ Goto("create_ctx")
  /\ UNCHANGED <<build, ret, stop, handles, log, iter, samples>>

AD4696_handle_sig ==
  /\ prog = "ad4696" /\ handler /\ result = "running"
  /\ stop' = TRUE
  /\ UNCHANGED <<build, pc, ending, ret, handler, handles, log, iter, samples>>

AD4696_create_context ==
  /\ At("ad4696", "create_ctx")
  /\ \/ /\ argc = 1
        /\ \E ok \in BOOLEAN :
             /\ log' = Append(log, Ev("iio_create_default_context", "ctx", 0, ok))
             /\ ctx' = IF ok THEN "valid" ELSE "NULL"
             /\ IIO_ENSURE(ok, "devices_count")
     \/ /\ argc = 2
        /\ \E ok \in BOOLEAN :
             /\ log' = Append(log, Ev("iio_create_context_from_uri", "ctx", 0, ok))
             /\ ctx' = IF ok THEN "valid" ELSE "NULL"
             /\ IIO_ENSURE(ok, "devices_count")
     \/ /\ argc > 2
        /\ Goto("devices_count")
        /\ UNCHANGED <<ctx, log>>
  /\ UNCHANGED <<build, ret, sigstate, rxbuf, txbuf, rxchan, rx_chan, tx_chan, iter, samples>>

AD4696_devices_count ==
  /\ At("ad4696", "devices_count")
  /\ \E n \in 0..1 :
       /\ log' = Append(log, Ev("iio_context_get_devices_count", "ctx", n, ctx = "valid"))
       /\ IF ctx = "valid" THEN IIO_ENSURE(n > 0, "stream_dev") ELSE Crash
  /\ UNCHANGED <<build, ret, sigstate, handles, iter, samples>>

AD4696_get_stream_dev ==
  /\ At("ad4696", "stream_dev")
  /\ \E ok \in BOOLEAN :
       /\ log' = Append(log, Ev("iio_context_find_device", "axi-ad469x-adc", 0, ok))
       /\ IIO_ENSURE(ok, "cfg_ch")
  /\ UNCHANGED <<build, ret, sigstate, handles, iter, samples>>

AD4696_cfg_streaming_ch ==
  /\ At("ad4696", "cfg_ch")
  /\ \E dev \in BOOLEAN, chn \in BOOLEAN :
       /\ log' = log \o <<Ev("iio_context_find_device", "axi-ad469x-adc", 0, dev)>>
                     \o (IF dev THEN <<Ev("iio_device_find_channel", "voltage",
                                          0, chn)>>
                                ELSE <<>>)
       /\ IIO_ENSURE(dev /\ chn, "stream_ch")
  /\ UNCHANGED <<build, ret, sigstate, handles, iter, samples>>

AD4696_get_stream_ch ==
  /\ At("ad4696", "stream_ch")
  /\ \E ok \in BOOLEAN :
       /\ log' = Append(log, Ev("iio_device_find_channel", "voltage",
                                0, ok))
       /\ rxchan' = IF ok THEN "valid" ELSE "NULL"
       /\ IIO_ENSURE(ok, "mode_reg")
  /\ UNCHANGED <<build, ret, sigstate, ctx, rxbuf, txbuf, rx_chan, tx_chan, iter, samples>>

AD4696_mode_reg ==
  /\ At("ad4696", "mode_reg")
  /\ \E w \in BOOLEAN, r \in BOOLEAN :
       log' = log \o <<Ev("iio_device_reg_write", "0x400", MODE_REG_VAL, w),
                        Ev("iio_device_reg_read", "0x400", 0, r)>>
  /\ Goto("enable")
  /\ UNCHANGED <<build, ret, sigstate, handles, iter, samples>>

\* a main that goes on to the buffer without enabling the channel
AD4696_channel_enable_missing ==
  /\ At("ad4696", "enable")
  /\ log' = log
  /\ Goto("create_buffer")
  /\ UNCHANGED <<build, ret, sigstate, handles, iter, samples>>

AD4696_channel_enable ==
  /\ At("ad4696", "enable")
  /\ log' = Append(log, Ev("iio_channel_enable", "rxchan", 0, TRUE))
  /\ Goto("create_buffer")
  /\ UNCHANGED <<build, ret, sigstate, handles, iter, samples>>

AD4696_create_buffer ==
  /\ At("ad4696", "create_buffer")
  /\ \E ok \in BOOLEAN :
       /\ log' = Append(log, Ev("iio_device_create_buffer", "rxbuf", BUFFER_LENGTH, ok))
       /\ rxbuf' = IF ok THEN "valid" ELSE "NULL"
       /\ Goto(IF ok THEN "while" ELSE "shutdown")
  /\ UNCHANGED <<build, ret, sigstate, ctx, txbuf, rxchan, rx_chan, tx_chan, iter, samples>>

AD4696_while ==
  /\ At("ad4696", "while")
  /\ stop \/ iter < MaxIter
  /\ log' = Append(log, LoopEv("while", "stop", 0, TRUE))
  /\ iter' = IF stop THEN iter ELSE iter + 1
  /\ EndOfBody
  /\ Goto(IF stop THEN "shutdown" ELSE "refill")
  /\ UNCHANGED <<build, ret, sigstate, handles, rxdata>>

AD4696_refill ==
  /\ At("ad4696", "refill")
  /\ \E ok \in BOOLEAN :
       /\ log' = Append(log, LoopEv("iio_buffer_refill", "rxbuf", 0, ok))
       /\ Goto(IF ok THEN "samples" ELSE "shutdown")
  /\ UNCHANGED <<build, ret, sigstate, handles, iter, samples>>

AD4696_samples ==
  /\ At("ad4696", "samples")
  /\ \E fmt \in Formats, mem \in BOOLEAN :
       LET ss == SampleSize(fmt)
           fm == Ev("iio_channel_get_data_format", "rxchan", 0, TRUE)
       IN  IF ~mem
           THEN /\ log' = log \o <<fm, Ev("malloc", "buf", 0, FALSE)>>
                /\ Goto("shutdown")
                /\ sample_size' = ss
                /\ UNCHANGED bytes
           ELSE \E nb \in RawResults(ss) :
                  /\ log' = log \o <<fm, Ev("malloc", "buf", 0, TRUE),
                                       Ev("iio_channel_read_raw", "rxchan", 0, nb >= 0)>>
                  /\ sample_size' = ss /\ bytes' = nb
                  /\ IF InBounds(LoopBound(nb, ss), 2, ss)
                     THEN Goto("while")
                     ELSE IF LoopBound(nb, ss) = HUGE THEN Crash
                          ELSE Crash \/ Goto("while")
  /\ UNCHANGED <<build, ret, sigstate, handles, iter, rawbuf, printed, rxdata>>

\* a shutdown() that destroys the context before it disables the channel
AD4696_shutdown_context_first ==
  /\ At("ad4696", "shutdown")
  /\ log' = log \o IfHeld(rxbuf, Ev("iio_buffer_destroy", "rxbuf", 0, TRUE))
                \o IfHeld(ctx, Ev("iio_context_destroy", "ctx", 0, TRUE))
                \o IfHeld(rxchan, Ev("iio_channel_disable", "rxchan", 0, TRUE))
  /\ rxbuf' = Released(rxbuf)
  /\ ctx' = Released(ctx)
  /\ Exit(0)
  /\ UNCHANGED <<build, ret, sigstate, txbuf, rxchan, rx_chan, tx_chan, iter, samples>>

AD4696_shutdown ==
  /\ At("ad4696", "shutdown")
  /\ log' = log \o IfHeld(rxbuf, Ev("iio_buffer_destroy", "rxbuf", 0, TRUE))
                \o IfHeld(rxchan, Ev("iio_channel_disable", "rxchan", 0, TRUE))
                \o IfHeld(ctx, Ev("iio_context_destroy", "ctx", 0, TRUE))
  /\ rxbuf' = Released(rxbuf)
  /\ ctx' = Released(ctx)
  /\ Exit(0)
  /\ UNCHANGED <<build, ret, sigstate, txbuf, rxchan, rx_chan, tx_chan, iter, samples>>

AD4696 ==
  \/ AD4696_signal \/ AD4696_create_context \/ AD4696_devices_count
  \/ AD4696_get_stream_dev \/ AD4696_cfg_streaming_ch \/ AD4696_get_stream_ch
  \/ AD4696_mode_reg \/ AD4696_channel_enable \/ AD4696_create_buffer \/ AD4696_while
  \/ AD4696_refill \/ AD4696_samples \/ AD4696_shutdown

\* --------------------------------------------------------------- ADRV9002
\* A configuration routine is a fixed sequence of library calls, each
\* followed by "if it failed, return its error".  A step names the call, its
\* object, its integer argument and the value returned when it fails.
Step(op, obj, val, err) == [op |-> op, obj |-> obj, val |-> val, err |-> err]

\* a routine that goes on to its last call after the k-th one failed
Calls_through(script, k) ==
  [i \in 1..Len(script) |-> Ev(script[i].op, script[i].obj, script[i].val, i # k)]

\* the trace of a routine whose k-th call is the first to fail
\* (k = Len(script) + 1: no call fails)
Calls(script, k) ==
  [i \in 1..(IF k <= Len(script) THEN k ELSE Len(script)) |->
     Ev(script[i].op, script[i].obj, script[i].val, i < k)]

\* ... and the value the routine returns at that call
Failure(script, k) == script[k].err

\* frequencies are in MHz here: GHZ(2.5)
LO_2500 == 2500
\* the arguments of the single tone: 5000 Hz, scale 0.4 (in thousandths)
TONE_FREQ == 5000
TONE_SCALE == 400

ADRV9002_configure_trx_lo_calls ==
  << Step("iio_context_find_device", "adrv9002-phy", 0, -ENODEV),
     Step("iio_device_find_channel", "voltage0", 0, -ENODEV),
     Step("iio_channel_attr_read_longlong", "voltage0.rf_bandwidth", 0, -EIO),
     Step("iio_channel_attr_read_longlong", "voltage0.sampling_frequency", 0, -EIO),
     Step("iio_device_find_channel", "altvoltage2", 0, -ENODEV),
     Step("iio_channel_attr_write_longlong", "altvoltage2.TX1_LO_frequency", LO_2500, -EIO),
     Step("iio_device_find_channel", "altvoltage0", 0, -ENODEV),
     Step("iio_channel_attr_write_longlong", "altvoltage0.RX1_LO_frequency", LO_2500, -EIO) >>

\* dds_single_tone(freq_val, scale_val, channel), up to the two enables
dds_single_tone_calls(freq_val, scale_val, channel) ==
  LET i == IF channel = 0 THEN "altvoltage0" ELSE "altvoltage4"
      q == IF channel = 0 THEN "altvoltage2" ELSE "altvoltage6"
  IN << Step("iio_context_find_device", "axi-adrv9002-tx-lpc", 0, -ENODEV),
        Step("iio_device_find_channel", i, 0, -ENODEV),
        Step("iio_channel_attr_write_longlong", i, freq_val, -EIO),
        Step("iio_channel_attr_write_double", i, scale_val, -EIO),
        Step("iio_device_find_channel", q, 0, -ENODEV),
        Step("iio_channel_attr_write_longlong", q, freq_val, -EIO),
        Step("iio_channel_attr_write_double", q, scale_val, -EIO) >>

dds_enables(channel) ==
  << Ev("iio_channel_enable", IF channel = 0 THEN "altvoltage0" ELSE "altvoltage4", 0, TRUE),
     Ev("iio_channel_enable", IF channel = 0 THEN "altvoltage2" ELSE "altvoltage6", 0, TRUE) >>

\* the RX buffer is read through an int16_t pointer; with voltage0_i and
\* voltage0_q enabled a frame is two such elements
sizeof_p_dat == 2
iio_buffer_step == 2 * sizeof_p_dat
Int16Samples == {-32768, 32767}
\* buffers of n frames whose I and Q differ, so that an exchange shows
RECURSIVE IQFrames(_)
IQFrames(n) ==
  IF n = 0 THEN { <<>> }
  ELSE { d \o f : d \in IQFrames(n - 1),
                   f \in { g \in Int16Samples \X Int16Samples : g[1] # g[2] } }
\* what a successful refill can leave in the RX buffer
Refilled == UNION { IQFrames(n) : n \in 0..MaxFrames }

\* the loop of stream() that overwrites both elements of a frame with Q
RECURSIVE SwapPass_q_twice(_, _, _)
SwapPass_q_twice(d, p_dat, inc) ==
  IF p_dat >= Len(d) THEN d
  ELSE SwapPass_q_twice([d EXCEPT ![p_dat + 1] = d[p_dat + 2], ![p_dat + 2] = d[p_dat + 2]],
                        p_dat + inc, inc)

\* the loop of stream() over the RX buffer: p_dat runs from the first I
\* sample (element p_dat, counted from 0) to the end in steps of inc elements
RECURSIVE SwapPass(_, _, _)
SwapPass(d, p_dat, inc) ==
  IF p_dat >= Len(d) THEN d
  ELSE SwapPass([d EXCEPT ![p_dat + 1] = d[p_dat + 2], ![p_dat + 2] = d[p_dat + 1]],
                p_dat + inc, inc)

\* the names stream_channels_get_enable looks up
StreamChannel(tx, c) ==
  IF tx THEN (IF c = 0 THEN "voltage0" ELSE "voltage1")
        ELSE (IF c = 0 THEN "voltage0_i" ELSE "voltage0_q")

\* stream_channels_get_enable: found is the number of channels found
\* before the first lookup that fails (2: both are found)
get_enable_calls(tx, name, found) ==
  LET one(c) == IF c < found
                THEN << Ev("iio_device_find_channel", StreamChannel(tx, c), 0, TRUE),
                        Ev("iio_channel_enable", name[c], 0, TRUE) >>
                ELSE << Ev("iio_device_find_channel", StreamChannel(tx, c), 0, FALSE) >>
  IN  IF found = 0 THEN one(0) ELSE one(0) \o one(1)

RxName == [c \in 0..1 |-> IF c = 0 THEN "rx_chan0" ELSE "rx_chan1"]
TxName == [c \in 0..1 |-> IF c = 0 THEN "tx_chan0" ELSE "tx_chan1"]

\* a cleanup() that destroys the TX buffer before the RX buffer
cleanup_calls_tx_first ==
  LET chans(c) == IfHeld(rx_chan[c], Ev("iio_channel_disable", RxName[c], 0, TRUE))
                  \o IfHeld(tx_chan[c], Ev("iio_channel_disable", TxName[c], 0, TRUE))
  IN  IfHeld(txbuf, Ev("iio_buffer_destroy", "txbuf", 0, TRUE))
      \o IfHeld(rxbuf, Ev("iio_buffer_destroy", "rxbuf", 0, TRUE))
      \o chans(0) \o chans(1)
      \o << Ev("iio_context_destroy", "ctx", 0, ctx = "valid") >>

\* cleanup(): the trace of its releases
cleanup_calls ==
  LET chans(c) == IfHeld(rx_chan[c], Ev("iio_channel_disable", RxName[c], 0, TRUE))
                  \o IfHeld(tx_chan[c], Ev("iio_channel_disable", TxName[c], 0, TRUE))
  IN  IfHeld(rxbuf, Ev("iio_buffer_destroy", "rxbuf", 0, TRUE))
      \o IfHeld(txbuf, Ev("iio_buffer_destroy", "txbuf", 0, TRUE))
      \o chans(0) \o chans(1)
      \o << Ev("iio_context_destroy", "ctx", 0, ctx = "valid") >>

\* "ret = <error>; goto clean" and "if (ret) goto clean"
Clean(r) == /\ ret' = r /\ Goto("clean")
Continue(r, l) == /\ ret' = r /\ Goto(IF r # 0 THEN "clean" ELSE l)

ADRV9002_register_signals ==
  /\ At("adrv9002", "start")
  /\ \E ok \in BOOLEAN :
       /\ handler' = ok
       /\ IF ok THEN Goto("create_ctx") ELSE Exit(EXIT_FAILURE)
  /\ UNCHANGED <<build, ret, stop, handles, log, iter, samples>>

ADRV9002_sig_handler ==
  /\ prog = "adrv9002" /\ handler /\ result = "running"
  /\ \E signum \in {"SIGINT", "SIGTERM"} : stop' = TRUE
  /\ UNCHANGED <<build, pc, ending, ret, handler, handles, log, iter, samples>>

ADRV9002_create_context ==
  /\ At("adrv9002", "create_ctx")
  /\ \/ /\ argc = 1
        /\ \E ok \in BOOLEAN :
             /\ log' = Append(log, Ev("iio_create_default_context", "ctx", 0, ok))
             /\ ctx' = IF ok THEN "valid" ELSE "NULL"
             /\ IF ok THEN Goto("trx_lo") ELSE Exit(EXIT_FAILURE)
     \/ /\ argc = 2
        /\ \E ok \in BOOLEAN :
             /\ log' = Append(log, Ev("iio_create_context_from_uri", "ctx", 0, ok))
             /\ ctx' = IF ok THEN "valid" ELSE "NULL"
             /\ IF ok THEN Goto("trx_lo") ELSE Exit(EXIT_FAILURE)
     \/ /\ argc > 2
        /\ Exit(EXIT_FAILURE)
        /\ UNCHANGED <<ctx, log>>
  /\ UNCHANGED <<build, ret, sigstate, rxbuf, txbuf, rxchan, rx_chan, tx_chan, iter, samples>>

\* configure_trx_lo has no return statement on its successful path: the
\* value main receives there is indeterminate
ADRV9002_configure_trx_lo ==
  /\ At("adrv9002", "trx_lo")
  /\ LET script == ADRV9002_configure_trx_lo_calls
     IN  \E k \in 1..(Len(script) + 1) :
           /\ log' = log \o Calls(script, k)
           /\ IF k <= Len(script)
              THEN Continue(Failure(script, k), "find_phy")
              ELSE \E r \in {0, GARBAGE} : Continue(r, "find_phy")
  /\ UNCHANGED <<build, sigstate, handles, iter, samples>>

ADRV9002_find_phy ==
  /\ At("adrv9002", "find_phy")
  /\ \E ok \in BOOLEAN :
       /\ log' = Append(log, Ev("iio_context_find_device", "adrv9002-phy", 0, ok))
       /\ IF ok THEN Goto("find_tx") /\ UNCHANGED ret ELSE Clean(EXIT_FAILURE)
  /\ UNCHANGED <<build, sigstate, handles, iter, samples>>

ADRV9002_find_tx ==
  /\ At("adrv9002", "find_tx")
  /\ \E ok \in BOOLEAN :
       /\ log' = Append(log, Ev("iio_context_find_device", "axi-adrv9002-tx-lpc", 0, ok))
       /\ IF ok THEN Goto("dac_mode") /\ UNCHANGED ret ELSE Clean(EXIT_FAILURE)
  /\ UNCHANGED <<build, sigstate, handles, iter, samples>>

ADRV9002_dac_mode ==
  /\ At("adrv9002", "dac_mode")
  /\ \E w \in BOOLEAN, r \in BOOLEAN :
       log' = log \o <<Ev("iio_device_reg_write", Reg(DAC_MODE_REGISTER), tx_dac_mode, w),
                        Ev("iio_device_reg_read", Reg(DAC_MODE_REGISTER), 0, r)>>
  /\ Goto(IF tx_dac_mode = 0 THEN "dds" ELSE "find_rx")
  /\ UNCHANGED <<build, ret, sigstate, handles, iter, samples>>

ADRV9002_dds_single_tone ==
  /\ At("adrv9002", "dds")
  /\ LET script == dds_single_tone_calls(TONE_FREQ, TONE_SCALE, 0)
     IN  \E k \in 1..(Len(script) + 1) :
           IF k <= Len(script)
           THEN /\ log' = log \o Calls(script, k)
                /\ Continue(Failure(script, k), "find_rx")
           ELSE /\ log' = log \o Calls(script, k) \o dds_enables(0)
                /\ Continue(0, "find_rx")
  /\ UNCHANGED <<build, sigstate, handles, iter, samples>>

ADRV9002_find_rx ==
  /\ At("adrv9002", "find_rx")
  /\ \E ok \in BOOLEAN :
       /\ log' = Append(log, Ev("iio_context_find_device", "axi-adrv9002-rx-lpc", 0, ok))
       /\ IF ok THEN Goto("rx_enable") /\ UNCHANGED ret ELSE Clean(EXIT_FAILURE)
  /\ UNCHANGED <<build, sigstate, handles, iter, samples>>

ADRV9002_rx_get_enable ==
  /\ At("adrv9002", "rx_enable")
  /\ \E found \in 0..2 :
       /\ log' = log \o get_enable_calls(FALSE, RxName, found)
       /\ rx_chan' = [c \in 0..1 |-> IF c < found THEN "valid" ELSE "NULL"]
       /\ Continue(IF found = 2 THEN 0 ELSE -ENODEV,
                   IF tx_dac_mode = 2 THEN "tx_enable" ELSE "create_rxbuf")
  /\ UNCHANGED <<build, sigstate, ctx, rxbuf, txbuf, rxchan, tx_chan, iter, samples>>

ADRV9002_tx_get_enable ==
  /\ At("adrv9002", "tx_enable")
  /\ \E found \in 0..2 :
       /\ log' = log \o get_enable_calls(TRUE, TxName, found)
       /\ tx_chan' = [c \in 0..1 |-> IF c < found THEN "valid" ELSE "NULL"]
       /\ Continue(IF found = 2 THEN 0 ELSE -ENODEV, "create_txbuf")
  /\ UNCHANGED <<build, sigstate, ctx, rxbuf, txbuf, rxchan, rx_chan, iter, samples>>

ADRV9002_create_txbuf ==
  /\ At("adrv9002", "create_txbuf")
  /\ \E ok \in BOOLEAN :
       /\ log' = Append(log, Ev("iio_device_create_buffer", "txbuf", MiS, ok))
       /\ txbuf' = IF ok THEN "valid" ELSE "NULL"
       /\ IF ok THEN Goto("create_rxbuf") /\ UNCHANGED ret ELSE Clean(EXIT_FAILURE)
  /\ UNCHANGED <<build, sigstate, ctx, rxbuf, rxchan, rx_chan, tx_chan, iter, samples>>

ADRV9002_create_rxbuf ==
  /\ At("adrv9002", "create_rxbuf")
  /\ \E ok \in BOOLEAN :
       /\ log' = Append(log, Ev("iio_device_create_buffer", "rxbuf", MiS, ok))
       /\ rxbuf' = IF ok THEN "valid" ELSE "NULL"
       /\ IF ok THEN Goto("while") /\ UNCHANGED ret ELSE Clean(EXIT_FAILURE)
  /\ UNCHANGED <<build, sigstate, ctx, txbuf, rxchan, rx_chan, tx_chan, iter, samples>>

ADRV9002_while ==
  /\ At("adrv9002", "while")
  /\ stop \/ iter < MaxIter
  /\ log' = Append(log, LoopEv("while", "stop", 0, TRUE))
  /\ iter' = IF stop THEN iter ELSE iter + 1
  /\ Goto(IF stop THEN "after_stream" ELSE IF tx_dac_mode = 2 THEN "push" ELSE "refill")
  /\ UNCHANGED <<build, ret, sigstate, handles, samples>>

ADRV9002_push ==
  /\ At("adrv9002", "push")
  /\ \E ok \in BOOLEAN :
       /\ log' = Append(log, LoopEv("iio_buffer_push", "txbuf", 0, ok))
       /\ Goto(IF ok THEN "refill" ELSE "after_stream")
  /\ UNCHANGED <<build, ret, sigstate, handles, iter, samples>>

ADRV9002_refill ==
  /\ At("adrv9002", "refill")
  /\ \/ /\ log' = Append(log, LoopEv("iio_buffer_refill", "rxbuf", 0, FALSE))
        /\ Goto("after_stream")
        /\ UNCHANGED <<rawbuf, rxdata>>
     \/ \E d \in Refilled :
          /\ log' = Append(log, LoopEv("iio_buffer_refill", "rxbuf", Len(d) * sizeof_p_dat, TRUE))
          /\ rawbuf' = d /\ rxdata' = d
          /\ Goto("swap")
  /\ UNCHANGED <<build, ret, sigstate, handles, iter, printed, sample_size, bytes>>

ADRV9002_swap ==
  /\ At("adrv9002", "swap")
  /\ log' = log \o << Ev("iio_buffer_first", "rxbuf", 0, TRUE) >>
                \o (IF tx_dac_mode = 2
                    THEN << Ev("iio_buffer_first", "txbuf", 0, TRUE) >>
                    ELSE << >>)
  /\ rxdata' = SwapPass(rxdata, 0, iio_buffer_step \div sizeof_p_dat)
  /\ Goto("while")
  /\ UNCHANGED <<build, ret, sigstate, handles, iter, rawbuf, printed, sample_size, bytes>>

ADRV9002_loopback_off ==
  /\ At("adrv9002", "after_stream")
  /\ \E ok \in BOOLEAN :
       log' = Append(log, Ev("iio_device_debug_attr_write", "tx0_ssi_test_mode_loopback_en", 0, ok))
  /\ Goto("clean")
  /\ UNCHANGED <<build, ret, sigstate, handles, iter, samples>>

ADRV9002_cleanup ==
  /\ At("adrv9002", "clean")
  /\ log' = log \o cleanup_calls
  /\ rxbuf' = Released(rxbuf)
  /\ txbuf' = Released(txbuf)
  /\ ctx' = Released(ctx)
  /\ rawbuf' = <<>> /\ rxdata' = <<>>
  /\ Exit(ret)
  /\ UNCHANGED <<build, ret, sigstate, rxchan, rx_chan, tx_chan, iter, printed, sample_size, bytes>>

ADRV9002 ==
  \/ ADRV9002_register_signals \/ ADRV9002_create_context \/ ADRV9002_configure_trx_lo
  \/ ADRV9002_find_phy \/ ADRV9002_find_tx \/ ADRV9002_dac_mode
  \/ ADRV9002_dds_single_tone \/ ADRV9002_find_rx \/ ADRV9002_rx_get_enable
  \/ ADRV9002_tx_get_enable \/ ADRV9002_create_txbuf \/ ADRV9002_create_rxbuf
  \/ ADRV9002_while \/ ADRV9002_push \/ ADRV9002_refill \/ ADRV9002_swap
  \/ ADRV9002_loopback_off \/ ADRV9002_cleanup

\* ----------------------------------------------------------- ADRV9002 DDS
\* GHZ(2.4), in MHz
LO_2400 == 2400

DDS_configure_trx_lo_calls ==
  << Step("iio_context_find_device", "adrv9002-phy", 0, -ENODEV),
     Step("iio_device_find_channel", "voltage0", 0, -ENODEV),
     Step("iio_device_find_channel", "voltage1", 0, -ENODEV),
     Step("iio_channel_attr_read_longlong", "voltage1.rf_bandwidth", 0, -EIO),
     Step("iio_channel_attr_read_longlong", "voltage1.sampling_frequency", 0, -EIO),
     Step("iio_device_find_channel", "altvoltage2", 0, -ENODEV),
     Step("iio_channel_attr_write_longlong", "altvoltage2.TX1_LO_frequency", LO_2400, -EIO),
     Step("iio_device_find_channel", "altvoltage0", 0, -ENODEV),
     Step("iio_channel_attr_write_longlong", "altvoltage0.RX1_LO_frequency", LO_2400, -EIO) >>

\* what the device may report when an attribute that was just written is
\* read back: the value written, or the value it settled on
Readbacks(v) == {v, v - 1}

\* configure_tx_dds(freq_val, scale_val, channel), up to the two enables.
\* The read-backs store into freq_val and scale_val themselves: rf and rs are
\* the values read back from the I channel, which the Q channel then gets.
\* The values read back from the Q channel are only printed.
configure_tx_dds_calls(freq_val, scale_val, channel, rf, rs) ==
  LET i == IF channel = 0 THEN "altvoltage0" ELSE "altvoltage4"
      q == IF channel = 0 THEN "altvoltage2" ELSE "altvoltage6"
  IN << Step("iio_context_find_device", "axi-adrv9002-tx-lpc", 0, -ENODEV),
        Step("iio_device_find_channel", i, 0, -ENODEV),
        Step("iio_channel_attr_write_longlong", i, freq_val, -EIO),
        Step("iio_channel_attr_write_double", i, scale_val, -EIO),
        Step("iio_channel_attr_read_longlong", i, rf, -EIO),
        Step("iio_channel_attr_read_double", i, rs, -EIO),
        Step("iio_device_find_channel", q, 0, -ENODEV),
        Step("iio_channel_attr_write_longlong", q, rf, -EIO),
        Step("iio_channel_attr_write_double", q, rs, -EIO),
        Step("iio_channel_attr_read_longlong", q, 0, -EIO),
        Step("iio_channel_attr_read_double", q, 0, -EIO) >>

DDS_register_signals ==
  /\ At("adrv9002dds", "start")
  /\ \E ok \in BOOLEAN :
       /\ handler' = ok
       /\ IF ok THEN Goto("create_ctx") ELSE Exit(EXIT_FAILURE)
  /\ UNCHANGED <<build, ret, stop, handles, log, iter, samples>>

DDS_sig_handler ==
  /\ prog = "adrv9002dds" /\ handler /\ result = "running"
  /\ \E signum \in {"SIGINT", "SIGTERM"} : stop' = TRUE
  /\ UNCHANGED <<build, pc, ending, ret, handler, handles, log, iter, samples>>

DDS_create_context ==
  /\ At("adrv9002dds", "create_ctx")
  /\ \/ /\ argc = 1
        /\ \E ok \in BOOLEAN :
             /\ log' = Append(log, Ev("iio_create_default_context", "ctx", 0, ok))
             /\ ctx' = IF ok THEN "valid" ELSE "NULL"
             /\ IF ok THEN Goto("trx_lo") ELSE Exit(EXIT_FAILURE)
     \/ /\ argc = 2
        /\ \E ok \in BOOLEAN :
             /\ log' = Append(log, Ev("iio_create_context_from_uri", "ctx", 0, ok))
             /\ ctx' = IF ok THEN "valid" ELSE "NULL"
             /\ IF ok THEN Goto("trx_lo") ELSE Exit(EXIT_FAILURE)
     \/ /\ argc > 2
        /\ Exit(EXIT_FAILURE)
        /\ UNCHANGED <<ctx, log>>
  /\ UNCHANGED <<build, ret, sigstate, rxbuf, txbuf, rxchan, rx_chan, tx_chan, iter, samples>>

\* configure_trx_lo has no return statement on its successful path: the
\* value main receives there is indeterminate
DDS_configure_trx_lo ==
  /\ At("adrv9002dds", "trx_lo")
  /\ LET script == DDS_configure_trx_lo_calls
     IN  \E k \in 1..(Len(script) + 1) :
           /\ log' = log \o Calls(script, k)
           /\ IF k <= Len(script)
              THEN Continue(Failure(script, k), "tx_dds")
              ELSE \E r \in {0, GARBAGE} : Continue(r, "tx_dds")
  /\ UNCHANGED <<build, sigstate, handles, iter, samples>>

DDS_configure_tx_dds ==
  /\ At("adrv9002dds", "tx_dds")
  /\ \E rf \in Readbacks(TONE_FREQ), rs \in Readbacks(TONE_SCALE) :
       LET script == configure_tx_dds_calls(TONE_FREQ, TONE_SCALE, 0, rf, rs)
       IN  \E k \in 1..(Len(script) + 1) :
             IF k <= Len(script)
             THEN /\ log' = log \o Calls(script, k)
                  /\ Continue(Failure(script, k), "find_rx")
             ELSE /\ log' = log \o Calls(script, k) \o dds_enables(0)
                  /\ Continue(0, "find_rx")
  /\ UNCHANGED <<build, sigstate, handles, iter, samples>>

DDS_find_rx ==
  /\ At("adrv9002dds", "find_rx")
  /\ \E ok \in BOOLEAN :
       /\ log' = Append(log, Ev("iio_context_find_device", "axi-adrv9002-rx-lpc", 0, ok))
       /\ IF ok THEN Goto("rx_enable") /\ UNCHANGED ret ELSE Clean(EXIT_FAILURE)
  /\ UNCHANGED <<build, sigstate, handles, iter, samples>>

DDS_rx_get_enable ==
  /\ At("adrv9002dds", "rx_enable")
  /\ \E found \in 0..2 :
       /\ log' = log \o get_enable_calls(FALSE, RxName, found)
       /\ rx_chan' = [c \in 0..1 |-> IF c < found THEN "valid" ELSE "NULL"]
       /\ Continue(IF found = 2 THEN 0 ELSE -ENODEV,
                   "create_rxbuf")
  /\ UNCHANGED <<build, sigstate, ctx, rxbuf, txbuf, rxchan, tx_chan, iter, samples>>

DDS_create_rxbuf ==
  /\ At("adrv9002dds", "create_rxbuf")
  /\ \E ok \in BOOLEAN :
       /\ log' = Append(log, Ev("iio_device_create_buffer", "rxbuf", MiS, ok))
       /\ rxbuf' = IF ok THEN "valid" ELSE "NULL"
       /\ IF ok THEN Goto("while") /\ UNCHANGED ret ELSE Clean(EXIT_FAILURE)
  /\ UNCHANGED <<build, sigstate, ctx, txbuf, rxchan, rx_chan, tx_chan, iter, samples>>

\* a loop that does not test the flag
DDS_while_forever ==
  /\ At("adrv9002dds", "while")
  /\ log' = Append(log, LoopEv("while", "stop", 0, TRUE))
  /\ iter' = iter
  /\ Goto("refill")
  /\ UNCHANGED <<build, ret, sigstate, handles, samples>>

DDS_while ==
  /\ At("adrv9002dds", "while")
  /\ stop \/ iter < MaxIter
  /\ log' = Append(log, LoopEv("while", "stop", 0, TRUE))
  /\ iter' = IF stop THEN iter ELSE iter + 1
  /\ Goto(IF stop THEN "clean" ELSE "refill")
  /\ UNCHANGED <<build, ret, sigstate, handles, samples>>

DDS_refill ==
  /\ At("adrv9002dds", "refill")
  /\ \/ /\ log' = Append(log, LoopEv("iio_buffer_refill", "rxbuf", 0, FALSE))
        /\ Goto("clean")
        /\ UNCHANGED <<rawbuf, rxdata>>
     \/ \E d \in Refilled :
          /\ log' = Append(log, LoopEv("iio_buffer_refill", "rxbuf", Len(d) * sizeof_p_dat, TRUE))
          /\ rawbuf' = d /\ rxdata' = d
          /\ Goto("swap")
  /\ UNCHANGED <<build, ret, sigstate, handles, iter, printed, sample_size, bytes>>

DDS_swap ==
  /\ At("adrv9002dds", "swap")
  /\ log' = Append(log, Ev("iio_buffer_first", "rxbuf", 0, TRUE))
  /\ rxdata' = SwapPass(rxdata, 0, iio_buffer_step \div sizeof_p_dat)
  /\ Goto("while")
  /\ UNCHANGED <<build, ret, sigstate, handles, iter, rawbuf, printed, sample_size, bytes>>

\* a main that runs cleanup() a second time before it returns
DDS_cleanup_twice ==
  /\ At("adrv9002dds", "clean")
  /\ log' = log \o cleanup_calls \o cleanup_calls
  /\ rxbuf' = Released(rxbuf)
  /\ txbuf' = Released(txbuf)
  /\ ctx' = Released(ctx)
  /\ rawbuf' = <<>> /\ rxdata' = <<>>
  /\ Exit(ret)
  /\ UNCHANGED <<build, ret, sigstate, rxchan, rx_chan, tx_chan, iter, printed, sample_size, bytes>>

DDS_cleanup ==
  /\ At("adrv9002dds", "clean")
  /\ log' = log \o cleanup_calls
  /\ rxbuf' = Released(rxbuf)
  /\ txbuf' = Released(txbuf)
  /\ ctx' = Released(ctx)
  /\ rawbuf' = <<>> /\ rxdata' = <<>>
  /\ Exit(ret)
  /\ UNCHANGED <<build, ret, sigstate, rxchan, rx_chan, tx_chan, iter, printed, sample_size, bytes>>

DDS ==
  \/ DDS_register_signals \/ DDS_create_context \/ DDS_configure_trx_lo
  \/ DDS_configure_tx_dds \/ DDS_find_rx \/ DDS_rx_get_enable \/ DDS_create_rxbuf
  \/ DDS_while \/ DDS_refill \/ DDS_swap \/ DDS_cleanup

\* ------------------------------------------- the routines on their own
PHASE_90 == 90000

\* the DDS channels of a TX channel: I and Q of tone 1, I and Q of tone 2
DDSChannel(channel, tone, iq) ==
  IF channel = 0
  THEN (IF tone = 1 THEN (IF iq = "i" THEN "altvoltage0" ELSE "altvoltage2")
                    ELSE (IF iq = "i" THEN "altvoltage1" ELSE "altvoltage3"))
  ELSE (IF tone = 1 THEN (IF iq = "i" THEN "altvoltage4" ELSE "altvoltage6")
                    ELSE (IF iq = "i" THEN "altvoltage5" ELSE "altvoltage7"))

\* one tone of dds_dual_tone: I channel, then Q channel with its phase
dual_tone_calls(freq_val, scale_val, channel, tone) ==
  LET i == DDSChannel(channel, tone, "i")
      q == DDSChannel(channel, tone, "q")
  IN << Step("iio_device_find_channel", i, 0, -ENODEV),
        Step("iio_channel_attr_write_longlong", i, freq_val, -EIO),
        Step("iio_channel_attr_write_double", i, scale_val, -EIO),
        Step("iio_device_find_channel", q, 0, -ENODEV),
        Step("iio_channel_attr_write_longlong", q, freq_val, -EIO),
        Step("iio_channel_attr_write_double", q, scale_val, -EIO),
        Step("iio_channel_attr_write_longlong", q \o ".phase", PHASE_90, -EIO) >>

\* dds_dual_tone(freq_val1, scale_val1, freq_val2, scale_val2, channel), up
\* to the enables
dds_dual_tone_calls(freq_val1, scale_val1, freq_val2, scale_val2, channel) ==
  << Step("iio_context_find_device", "axi-adrv9002-tx-lpc", 0, -ENODEV) >>
  \o dual_tone_calls(freq_val1, scale_val1, channel, 1)
  \o dual_tone_calls(freq_val2, scale_val2, channel, 2)

\* chan_i and chan_q hold the channels of the second tone when
\* dds_dual_tone reaches its two enables
dds_dual_tone_enables(channel) ==
  << Ev("iio_channel_enable", DDSChannel(channel, 2, "i"), 0, TRUE),
     Ev("iio_channel_enable", DDSChannel(channel, 2, "q"), 0, TRUE) >>

\* the arguments main passes, and those a routine is called with on its own
MainArgs ==
  [freq_val1 |-> TONE_FREQ, scale_val1 |-> TONE_SCALE,
   freq_val2 |-> TONE_FREQ, scale_val2 |-> TONE_SCALE, channel |-> 0]
ArgSets ==
  [freq_val1 : {TONE_FREQ, 7000}, scale_val1 : {TONE_SCALE, 250},
   freq_val2 : {TONE_FREQ, 9000}, scale_val2 : {TONE_SCALE, 100},
   channel : 0..MaxChannel]

\* a routine returns r to its caller
Return(name, r) == /\ pc' = name /\ result' = "returned" /\ status' = r /\ ret' = r

\* a routine that is a script followed by enables
CallScript(name, script, enables) ==
  \E k \in 1..(Len(script) + 1) :
    IF k <= Len(script)
    THEN /\ log' = log \o Calls(script, k)
         /\ Return(name, Failure(script, k))
    ELSE /\ log' = log \o Calls(script, k) \o enables
         /\ Return(name, 0)

Call_configure_trx_lo ==
  /\ prog \in {"adrv9002", "adrv9002dds"} /\ pc = "call"
  /\ LET script == IF prog = "adrv9002" THEN ADRV9002_configure_trx_lo_calls
                                        ELSE DDS_configure_trx_lo_calls
     IN  \E k \in 1..(Len(script) + 1) :
           /\ log' = log \o Calls(script, k)
           /\ IF k <= Len(script)
              THEN Return("configure_trx_lo", Failure(script, k))
              ELSE \E r \in {0, GARBAGE} : Return("configure_trx_lo", r)
  /\ UNCHANGED <<build, sigstate, handles, iter, samples>>

Call_dds_single_tone ==
  /\ prog = "adrv9002" /\ pc = "call"
  /\ CallScript("dds_single_tone",
                dds_single_tone_calls(args.freq_val1, args.scale_val1, args.channel),
                dds_enables(args.channel))
  /\ UNCHANGED <<build, sigstate, handles, iter, samples>>

Call_dds_dual_tone ==
  /\ prog = "adrv9002" /\ pc = "call"
  /\ CallScript("dds_dual_tone",
                dds_dual_tone_calls(args.freq_val1, args.scale_val1,
                                    args.freq_val2, args.scale_val2, args.channel),
                dds_dual_tone_enables(args.channel))
  /\ UNCHANGED <<build, sigstate, handles, iter, samples>>

Call_configure_tx_dds ==
  /\ prog = "adrv9002dds" /\ pc = "call"
  /\ \E rf \in Readbacks(args.freq_val1), rs \in Readbacks(args.scale_val1) :
       CallScript("configure_tx_dds",
                  configure_tx_dds_calls(args.freq_val1, args.scale_val1, args.channel, rf, rs),
                  dds_enables(args.channel))
  /\ UNCHANGED <<build, sigstate, handles, iter, samples>>

Call_stream_channels_get_enable ==
  /\ prog \in {"adrv9002", "adrv9002dds"} /\ pc = "call"
  /\ \E tx \in BOOLEAN, found \in 0..2 :
       /\ log' = log \o get_enable_calls(tx, IF tx THEN TxName ELSE RxName, found)
       /\ rx_chan' = IF tx THEN rx_chan
                     ELSE [c \in 0..1 |-> IF c < found THEN "valid" ELSE "NULL"]
       /\ tx_chan' = IF tx THEN [c \in 0..1 |-> IF c < found THEN "valid" ELSE "NULL"]
                     ELSE tx_chan
       /\ Return("stream_channels_get_enable", IF found = 2 THEN 0 ELSE -ENODEV)
  /\ UNCHANGED <<build, sigstate, ctx, rxbuf, txbuf, rxchan, iter, samples>>

\* ------------------------------------------------------------ specification
Init ==
  /\ prog \in Programs
  /\ argc \in 1..MaxArgc
  /\ out_data_md \in (IF prog = "ad4630" THEN 0..4 ELSE {OUT_DATA_MD})
  /\ ddr_md = DDR_MD /\ clk_md = CLK_MD /\ lane_md = LANE_MD
  /\ channel_number \in (IF prog = "ad4630" THEN 0..1 ELSE {0})
  /\ tx_dac_mode \in (IF prog = "adrv9002" THEN 0..2 ELSE {0})
  /\ args = MainArgs
  /\ pc = "start"
  /\ result = "running"
  /\ status = 0
  /\ ret = 0
  /\ handler = FALSE
  /\ stop = FALSE
  /\ ctx = "NULL" /\ rxbuf = "NULL" /\ txbuf = "NULL" /\ rxchan = "NULL"
  /\ rx_chan = [c \in 0..1 |-> "NULL"]
  /\ tx_chan = [c \in 0..1 |-> "NULL"]
  /\ log = <<>>
  /\ iter = 0
  /\ rawbuf = <<>>
  /\ printed = <<>>
  /\ rxdata = <<>>
  /\ sample_size = 0
  /\ bytes = 0

Next ==
  \/ AD7768
  \/ AD7768_handle_sig
  \/ AD4696
  \/ AD4696_handle_sig
  \/ AD4630
  \/ AD4630_handle_sig
  \/ ADRV9002
  \/ ADRV9002_sig_handler
  \/ DDS
  \/ DDS_sig_handler

Spec == Init /\ [][Next]_vars

\* The programs are single threaded and every library call returns: main
\* keeps taking steps until the process ends.
Main == AD7768 \/ AD4696 \/ AD4630 \/ ADRV9002 \/ DDS
FairSpec == Spec /\ WF_vars(Main)

\* The start of the AD4630 example, up to the write of the modes register,
\* for every documented value of the four fields of the register.
ModesInit ==
  /\ prog = "ad4630"
  /\ argc \in 1..MaxArgc
  /\ out_data_md \in 0..4 /\ ddr_md \in 0..1 /\ clk_md \in 0..3 /\ lane_md \in 0..3
  /\ channel_number = 0 /\ tx_dac_mode = 0 /\ args = MainArgs
  /\ pc = "start" /\ result = "running" /\ status = 0 /\ ret = 0
  /\ handler = FALSE /\ stop = FALSE
  /\ ctx = "NULL" /\ rxbuf = "NULL" /\ txbuf = "NULL" /\ rxchan = "NULL"
  /\ rx_chan = [c \in 0..1 |-> "NULL"]
  /\ tx_chan = [c \in 0..1 |-> "NULL"]
  /\ log = <<>> /\ iter = 0 /\ rawbuf = <<>> /\ printed = <<>> /\ rxdata = <<>>
  /\ sample_size = 0 /\ bytes = 0

ModesNext ==
  \/ AD4630_signal
  \/ AD4630_create_context
  \/ AD4630_devices_count
  \/ AD4630_get_stream_dev
  \/ AD4630_modes_reg

ModesSpec == ModesInit /\ [][ModesNext]_vars

\* The ADRV9002 programs, and each of their configuration routines called on
\* its own with an open context and arguments of its caller's choice.
RoutineInit ==
  /\ prog \in {"adrv9002", "adrv9002dds"}
  /\ pc \in {"start", "call"}
  /\ argc \in (IF pc = "call" THEN {1} ELSE 1..MaxArgc)
  /\ out_data_md = OUT_DATA_MD /\ ddr_md = DDR_MD /\ clk_md = CLK_MD /\ lane_md = LANE_MD
  /\ channel_number = 0
  /\ tx_dac_mode \in (IF prog = "adrv9002" /\ pc = "start" THEN 0..2 ELSE {0})
  /\ args \in (IF pc = "call" THEN ArgSets ELSE {MainArgs})
  /\ result = "running" /\ status = 0 /\ ret = 0
  /\ handler = FALSE /\ stop = FALSE
  /\ ctx = (IF pc = "call" THEN "valid" ELSE "NULL")
  /\ rxbuf = "NULL" /\ txbuf = "NULL" /\ rxchan = "NULL"
  /\ rx_chan = [c \in 0..1 |-> "NULL"]
  /\ tx_chan = [c \in 0..1 |-> "NULL"]
  /\ log = <<>> /\ iter = 0 /\ rawbuf = <<>> /\ printed = <<>> /\ rxdata = <<>>
  /\ sample_size = 0 /\ bytes = 0

RoutineNext ==
  \/ ADRV9002
  \/ ADRV9002_sig_handler
  \/ DDS
  \/ DDS_sig_handler
  \/ Call_configure_trx_lo
  \/ Call_dds_single_tone
  \/ Call_dds_dual_tone
  \/ Call_configure_tx_dds
  \/ Call_stream_channels_get_enable

RoutineSpec == RoutineInit /\ [][RoutineNext]_vars

\* ================================================================ claims
CreateOps == {"iio_create_default_context", "iio_create_context_from_uri"}
LookupOps == {"iio_context_find_device", "iio_device_find_channel"}
StreamOps == {"iio_buffer_refill", "iio_buffer_push"}
ReleaseOps == {"iio_buffer_destroy", "iio_channel_disable", "iio_context_destroy"}
ADRVPrograms == {"adrv9002", "adrv9002dds"}

Idx == 1..Len(log)
Terminated == result # "running"
\* an entry e of the trace that precedes position i
Before(i, op, obj, ok) ==
  \E j \in 1..(i - 1) : log[j].op = op /\ log[j].obj = obj /\ log[j].ok = ok
Happened(op, obj, ok) == Before(Len(log) + 1, op, obj, ok)
ContextCreated == \E j \in Idx : log[j].op \in CreateOps /\ log[j].ok
StreamCalls(l) == { j \in 1..Len(l) : l[j].op \in StreamOps }
TeardownBegun == pc \in {"shutdown", "clean"} \/ Terminated

\* the streaming device of a buffer and the channels enabled for it
DeviceOf(buf) ==
  CASE prog = "ad7768" -> "axi-ad7768-adc"
    [] prog = "ad4696" -> "axi-ad469x-adc"
    [] prog = "ad4630" -> "ad4630"
    [] prog \in ADRVPrograms ->
         IF buf = "txbuf" THEN "axi-adrv9002-tx-lpc" ELSE "axi-adrv9002-rx-lpc"
ChannelsOf(buf) ==
  IF prog \in ADPrograms THEN {"rxchan"}
  ELSE IF buf = "txbuf" THEN {"tx_chan0", "tx_chan1"} ELSE {"rx_chan0", "rx_chan1"}

\* C1 (state part): in the trace of every run, a lookup is preceded by the
\* successful creation of the context, the creation of a buffer by the lookup
\* of its device and by the enabling of its channels, and a refill or push
\* by the successful creation of its buffer.
C1_OrderInLog ==
  \A i \in Idx :
    /\ log[i].op \in LookupOps =>
         \E j \in 1..(i - 1) : log[j].op \in CreateOps /\ log[j].ok
    /\ log[i].op = "iio_device_create_buffer" =>
         /\ Before(i, "iio_context_find_device", DeviceOf(log[i].obj), TRUE)
         /\ \A c \in ChannelsOf(log[i].obj) : Before(i, "iio_channel_enable", c, TRUE)
         /\ \E j \in 1..(i - 1) : log[j].op = "iio_device_find_channel" /\ log[j].ok
    /\ log[i].op \in StreamOps =>
         Before(i, "iio_device_create_buffer", log[i].obj, TRUE)

\* C1: library operations occur in the order context creation, device and
\* channel lookup and channel enabling, buffer creation, refill/push, and
\* once teardown (shutdown() or cleanup()) has begun no refill or push is made.
C1_OperationOrder ==
  /\ []C1_OrderInLog
  /\ [][TeardownBegun => (TeardownBegun' /\ StreamCalls(log') = StreamCalls(log))]_vars

\* a run that streamed and then went through its teardown
C1_Witness ==
  /\ result = "exit"
  /\ Happened("iio_buffer_refill", "rxbuf", TRUE)
  /\ Happened("iio_context_destroy", "ctx", TRUE)

\* the releases of the trace, in order
Releases == SelectSeq(log, LAMBDA e : e.op \in ReleaseOps)
ReleaseCalls == [i \in 1..Len(Releases) |-> Releases[i].op]
ReleasedObjs == [i \in 1..Len(Releases) |-> Releases[i].obj]
\* the releases are the last entries of the trace
ReleasesAreLast ==
  \A i \in Idx : log[i].op \in ReleaseOps =>
    \A j \in (i + 1)..Len(log) : log[j].op \in ReleaseOps \cup {"while"}

\* C2: in the three AD examples shutdown() releases in the fixed order buffer,
\* channel, context and then exits with status 0; the buffer is destroyed only
\* if one was created, and shutdown() never returns: no call follows it.
C2_ShutdownOrder ==
  (prog \in ADPrograms /\ (Len(Releases) > 0 \/ result = "exit")) =>
    /\ result = "exit" /\ status = 0
    /\ ReleasesAreLast
    /\ ReleaseCalls =
         (IF Happened("iio_device_create_buffer", "rxbuf", TRUE)
          THEN <<"iio_buffer_destroy">> ELSE << >>)
         \o <<"iio_channel_disable", "iio_context_destroy">>

\* shutdown() after a failed buffer creation
C2_Witness ==
  /\ prog \in ADPrograms /\ result = "exit"
  /\ Happened("iio_device_create_buffer", "rxbuf", FALSE)
  /\ ReleaseCalls = <<"iio_channel_disable", "iio_context_destroy">>

Reverse(s) == [i \in 1..Len(s) |-> s[Len(s) + 1 - i]]

\* the handles the programs keep in their globals, by the name the trace
\* gives them
ChannelHandles == {"rxchan", "rx_chan0", "rx_chan1", "tx_chan0", "tx_chan1"}
BufferHandles == {"rxbuf", "txbuf"}
Acquisition(e) ==
  /\ e.ok
  /\ \/ e.op \in CreateOps
     \/ e.op = "iio_channel_enable" /\ e.obj \in ChannelHandles
     \/ e.op = "iio_device_create_buffer"
Acquisitions == SelectSeq(log, Acquisition)
\* the handles held, in the order they were acquired (a channel: enabled)
Acquired == [i \in 1..Len(Acquisitions) |-> Acquisitions[i].obj]
AcquiredBuffers == SelectSeq(Acquired, LAMBDA h : h \in BufferHandles)
IsAcquired(h) == \E i \in 1..Len(Acquired) : Acquired[i] = h
TeardownRan == Len(Releases) > 0

\* C3 as stated: on every path that reaches teardown the handles held are
\* released in exactly the reverse of the order in which they were acquired.
C3_ExactLIFO == TeardownRan => ReleasedObjs = Reverse(Acquired)

\* C3 as amended: teardown releases every handle held, once: first the
\* buffers, in the reverse of the order of their creation, then the channels,
\* then the context, which was acquired first.  With the single channel of
\* the AD examples this is the exact reverse of the acquisition; cleanup()
\* of the ADRV9002 programs disables its channels by ascending index (RX
\* before TX at each index), not in the reverse of their enabling.
C3_BuffersChannelsContext ==
  TeardownRan =>
    /\ ReleasedObjs =
         Reverse(AcquiredBuffers)
         \o SelectSeq(<<"rxchan", "rx_chan0", "tx_chan0", "rx_chan1", "tx_chan1">>, IsAcquired)
         \o <<"ctx">>
    /\ Acquired[1] = "ctx"
    /\ prog \in ADPrograms => ReleasedObjs = Reverse(Acquired)

\* cleanup() with both buffers and all four channels held
C3_Witness ==
  /\ prog = "adrv9002" /\ result = "exit"
  /\ Acquired = <<"ctx", "rx_chan0", "rx_chan1", "tx_chan0", "tx_chan1", "txbuf", "rxbuf">>
  /\ Len(Releases) = 7

\* C4 as stated: once a lookup or a library call has failed, the program only
\* releases its handles and ends: no call other than a release follows the
\* failed one (so no configuration, no streaming, no retry).
C4_FailureEndsRun ==
  \A i \in Idx : ~log[i].ok =>
    \A j \in (i + 1)..Len(log) : log[j].op \in ReleaseOps \cup {"while"}

\* C5 as stated: a run ends by exit status 0, by exit status EXIT_FAILURE or
\* by the abort of a failed IIO_ENSURE, and in no other way.
C5_ThreeEndings ==
  Terminated => \/ result = "abort"
                \/ result = "exit" /\ status \in {0, EXIT_FAILURE}

\* the loop-head checks of the trace and the iterations they start
Checks == { i \in Idx : log[i].op = "while" }
Refills == { i \in Idx : log[i].op = "iio_buffer_refill" }
Pushes == { i \in Idx : log[i].op = "iio_buffer_push" }
LoopEntries == Checks \cup Refills \cup Pushes
\* the loop-head check that started the iteration of the call at i
HeadOf(i) == CHOOSE c \in Checks : c < i /\ \A d \in Checks : d < i => d <= c
OtherThanStop == <<build, pc, ending, ret, handler, handles, log, iter, samples>>

\* C6 (state part): every refill and push belongs to an iteration started by
\* a loop-head check that read the flag as clear, with one check per
\* iteration; after a check that read the flag as set nothing of the loop
\* follows; at most one refill starts with the flag set; and a first check
\* that reads the flag as set leaves the run without any refill.
C6_ChecksInLog ==
  /\ \A i \in Refills \cup Pushes :
       /\ \E c \in Checks : c < i
       /\ ~log[HeadOf(i)].after_stop
       /\ \A j \in (HeadOf(i) + 1)..(i - 1) : log[j].op # log[i].op
  /\ \A c \in Checks : log[c].after_stop => \A j \in LoopEntries : j <= c
  /\ Cardinality({ i \in Refills : log[i].after_stop }) <= 1
  /\ \A c \in Checks :
       (log[c].after_stop /\ \A d \in Checks : c <= d) => Refills = {}

\* C6: the signal handler changes nothing but the stop flag, which it sets,
\* and the streaming loop reads the flag once per iteration at its head: no
\* iteration starts once the head has read the flag as set, at most one refill
\* starts after the flag was set, and none if it was set before the first check.
C6_StopFlag ==
  /\ [][stop' # stop => (stop' /\ UNCHANGED OtherThanStop)]_vars
  /\ []C6_ChecksInLog

\* the signal arrives during an iteration: one more refill, then the loop ends
C6_Witness ==
  /\ result = "exit"
  /\ \E i \in Refills : log[i].after_stop /\ log[i].ok
  /\ \E c \in Checks : log[c].after_stop
  /\ Cardinality(Refills) = 2

ContextDestroyed == Happened("iio_context_destroy", "ctx", TRUE)

\* C7 as stated (on finished runs): a run in which the signal was delivered
\* ends by its teardown routine, with the context destroyed.
C7_SignalEndsInTeardown ==
  (stop /\ Terminated) => (result = "exit" /\ TeardownRan /\ ContextDestroyed)

\* C7 as amended: once the signal has been delivered the run terminates, and
\* it does not stay in the streaming loop beyond the iteration in progress;
\* when it ends by leaving the loop or by any exit after the context was
\* created, the teardown routine ran and destroyed the context.  A run of an
\* AD example whose setup fails aborts without teardown, a run whose context
\* was never created has none to destroy, and a run killed by a memory fault
\* ends without teardown.
C7_SignalTerminates ==
  /\ stop ~> Terminated
  /\ [](Terminated /\ stop /\ result = "exit" /\ ContextCreated
          => TeardownRan /\ ContextDestroyed /\ ReleasesAreLast)
  /\ [][(stop /\ pc = "while") => pc' \notin {"refill", "push"}]_vars

\* the signal arrived while streaming and the run ended by its teardown
C7_Witness ==
  /\ stop /\ result = "exit"
  /\ \E i \in Refills : log[i].ok
  /\ \E c \in Checks : log[c].after_stop
  /\ ContextDestroyed

\* the shift of each mode
ShiftOf(md) == CASE md = 0 -> 8 [] md = 1 -> 16 [] md = 2 -> 8 [] md = 3 -> 2 [] md = 4 -> 0
\* v is w shifted right by k with the sign kept: the floor of w / 2^k
IsArithmeticShift(v, w, k) ==
  /\ v * (2 ^ k) <= w
  /\ w < v * (2 ^ k) + 2 ^ k
  /\ (v < 0) <=> (w < 0)

\* C8: every sample the AD4630 example prints is the arithmetic right shift,
\* by 8, 16, 8, 2 or 0 for modes 0 to 4, of the low (CHANNEL_NUMBER 0) or high
\* 32 bits of the raw 64-bit word at the same index as it was read; in mode 3
\* the two bits shifted out are the OR/SYNC value.
C8_SampleFormat ==
  At("ad4630", "free") =>
    /\ 2 * Len(printed) = Len(rawbuf)
    /\ \A s \in 1..Len(printed) :
         LET w == IF channel_number = 0 THEN rawbuf[2 * s - 1] ELSE rawbuf[2 * s]
         IN  /\ IsArithmeticShift(printed[s].val, w, ShiftOf(out_data_md))
             /\ IF out_data_md = 3
                THEN w = 4 * printed[s].val + printed[s].or_sync
                ELSE printed[s].or_sync = 0

\* two samples of channel 1 in mode 3, the second negative, the words differing
C8_Witness ==
  /\ At("ad4630", "free") /\ channel_number = 1 /\ out_data_md = 3
  /\ Len(printed) = 2
  /\ printed[2].val < 0 /\ printed[2].or_sync = 3
  /\ rawbuf[1] # rawbuf[2] /\ rawbuf[3] # rawbuf[1]

Creations == { i \in Idx : log[i].op \in CreateOps }

\* C9 as stated (on finished runs): a run creates exactly one context.
C9_ExactlyOneContext == Terminated => Cardinality(Creations) = 1

\* C9 (state part): a run makes at most one call that creates a context, and
\* that call is its first library call; it is made once main is past the
\* creation when the program was started with no argument (the default
\* context) or with one (the context of the URI), and it is not made with
\* more arguments or when the ADRV9002 programs fail to register their
\* signal handlers.
C9_CreationInLog ==
  /\ Creations \subseteq {1}
  /\ (argc = 1 /\ log # << >>) => log[1].op = "iio_create_default_context"
  /\ (argc = 2 /\ log # << >>) => log[1].op = "iio_create_context_from_uri"
  /\ (argc <= 2 /\ handler /\ pc \notin {"start", "create_ctx"}) => Creations = {1}
  /\ (argc > 2 \/ (Terminated /\ ~handler)) => Creations = {}

\* C9 as amended: at most one context is created per run, by the first
\* library call of the run and from the default (no argument) or the URI (one
\* argument); the handle is assigned by that call only and changes
\* afterwards only by being destroyed in the teardown that ends the run.
C9_OneContext ==
  /\ []C9_CreationInLog
  /\ [][ctx' # ctx =>
          \/ ctx = "NULL" /\ ctx' = "valid" /\ log = << >> /\ Creations' = {1}
          \/ ctx = "valid" /\ ctx' = "freed" /\ Terminated']_vars

\* a run started with a URI that streamed from the context of that URI
C9_Witness ==
  /\ argc = 2 /\ result = "exit" /\ ctx = "freed"
  /\ log[1].op = "iio_create_context_from_uri" /\ log[1].ok
  /\ \E i \in Refills : log[i].ok

ModesWrites == { i \in Idx : log[i].op = "iio_device_reg_write" /\ log[i].obj = Reg(MODES_REG) }
LastModesWrite == CHOOSE i \in ModesWrites : \A j \in ModesWrites : j <= i

\* C10 as stated: when a run of the AD4630 example that wrote the streaming
\* mode to the modes register has destroyed its context, the last value it
\* wrote to that register is the default 0x82.
C10_ModesRestored ==
  (prog = "ad4630" /\ ContextDestroyed /\ ModesWrites # {}) =>
    log[LastModesWrite].val = MODES_DEFAULT

\* the fields decoded from a value of the modes register
Bits(v, lo, width) == (v \div (2 ^ lo)) % (2 ^ width)
ModesWritten == { i \in Idx : log[i].op = "iio_device_reg_write"
                              /\ log[i].obj = Reg(MODES_REG) }

\* C11: the value the AD4630 example writes to the modes register holds
\* OUT_DATA_MD in bits 2..0, DDR_MD in bit 3, CLK_MD in bits 5..4 and LANE_MD
\* in bits 7..6, for every documented value of the fields, and it is 0x81
\* for the compiled values (1, 0, 0, 2).
C11_ModesPacking ==
  \A i \in ModesWritten :
    LET v == log[i].val
    IN  /\ Bits(v, 0, 3) = out_data_md
        /\ Bits(v, 3, 1) = ddr_md
        /\ Bits(v, 4, 2) = clk_md
        /\ Bits(v, 6, 2) = lane_md
        /\ v \in 0..255
        /\ (out_data_md = OUT_DATA_MD /\ ddr_md = DDR_MD /\ clk_md = CLK_MD
              /\ lane_md = LANE_MD) => v = 129

\* the register written with every field at its largest documented value
C11_Witness ==
  /\ ModesWritten # {}
  /\ out_data_md = 4 /\ ddr_md = 1 /\ clk_md = 3 /\ lane_md = 3
  /\ \A i \in ModesWritten : log[i].val = 252

\* the failures the AD examples assert on, and those they shut down on
AbortClass(e) ==
  \/ e.op \in CreateOps /\ ~e.ok
  \/ e.op = "iio_context_get_devices_count" /\ e.ok /\ e.val = 0
  \/ e.op \in LookupOps /\ ~e.ok
ShutdownClass(e) ==
  /\ ~e.ok
  /\ e.op \in {"iio_device_create_buffer", "iio_buffer_refill", "malloc",
               "iio_channel_attr_read_longlong"}
ShutdownCalls ==
  (IF Happened("iio_device_create_buffer", "rxbuf", TRUE)
   THEN <<"iio_buffer_destroy">> ELSE << >>)
  \o <<"iio_channel_disable", "iio_context_destroy">>

\* C12: in the three AD examples a failed context creation, a context
\* without devices and a failed device or channel lookup abort the process at
\* once with no release made, and only they do; a failed buffer creation, a
\* negative refill, a failed allocation and a negative attribute read are
\* followed by shutdown() alone, which releases the handles and exits with 0.
C12_FailureClasses ==
  prog \in ADPrograms =>
    /\ result = "abort" => (log # << >> /\ AbortClass(log[Len(log)]))
    /\ \A i \in Idx : AbortClass(log[i]) =>
         (i = Len(log) /\ result = "abort" /\ Releases = << >>)
    /\ \A i \in Idx : ShutdownClass(log[i]) =>
         /\ \A j \in (i + 1)..Len(log) : log[j].op \in ReleaseOps
         /\ pc = "shutdown" \/ (result = "exit" /\ status = 0 /\ ReleaseCalls = ShutdownCalls)

\* shutdown() after the allocation of the scratch buffer failed
C12_Witness ==
  /\ prog \in ADPrograms /\ result = "exit" /\ status = 0
  /\ Happened("malloc", "buf", FALSE)
  /\ ReleaseCalls = <<"iio_buffer_destroy", "iio_channel_disable", "iio_context_destroy">>

\* the DDS channels of the single tone main asks for (TX channel 0)
ToneI == "altvoltage0"
ToneQ == "altvoltage2"
ToneConfigured == Happened("iio_channel_enable", ToneI, TRUE)
WritesTo(chan, op) == { i \in Idx : log[i].op = op /\ log[i].obj = chan }

\* C13 as stated: when the single-tone configuration has returned 0, the
\* frequency and the scale of the caller were written, unchanged, to the I
\* and to the Q channel, whatever was read back, and both are enabled.
C13_ToneWritten ==
  (prog \in ADRVPrograms /\ ToneConfigured) =>
    \A chan \in {ToneI, ToneQ} :
      /\ WritesTo(chan, "iio_channel_attr_write_longlong") # {}
      /\ \A i \in WritesTo(chan, "iio_channel_attr_write_longlong") : log[i].val = TONE_FREQ
      /\ WritesTo(chan, "iio_channel_attr_write_double") # {}
      /\ \A i \in WritesTo(chan, "iio_channel_attr_write_double") : log[i].val = TONE_SCALE
      /\ Happened("iio_channel_enable", chan, TRUE)

\* ---------------------------------------------------------------------- C14
AttrOps ==
  {"iio_channel_attr_write_longlong", "iio_channel_attr_write_double",
   "iio_channel_attr_read_longlong", "iio_channel_attr_read_double"}
ConfigOps == LookupOps \cup AttrOps
ConfigFailures == { i \in Idx : log[i].op \in ConfigOps /\ ~log[i].ok }
BufferCreations == { j \in Idx : log[j].op = "iio_device_create_buffer" }

\* C14: in the ADRV9002 programs the first lookup or attribute access that
\* fails in a configuration routine ends the routine at once with a nonzero
\* value: nothing but the releases of cleanup follows it in the trace (no
\* attribute write, no enable, no write that undoes an earlier one), and main
\* is in cleanup or over without a buffer created or a transfer made.
C14_FirstFailureReturns ==
  prog \in ADRVPrograms =>
    \A i \in ConfigFailures :
      /\ \A j \in (i + 1)..Len(log) : log[j].op \in ReleaseOps
      /\ ret # 0
      /\ pc = "clean" \/ Terminated
      /\ result = "returned" => Len(log) = i /\ status = ret
      /\ BufferCreations = {}
      /\ StreamCalls(log) = {}
C14_Witness ==
  /\ result = "returned" /\ pc = "dds_dual_tone"
  /\ \E i \in ConfigFailures :
       /\ log[i].op = "iio_channel_attr_write_double" /\ log[i].obj = "altvoltage3"
       /\ Before(i, "iio_channel_attr_write_longlong", "altvoltage2.phase", TRUE)
       /\ ~ \E j \in Idx : log[j].op = "iio_channel_enable"

\* ---------------------------------------------------------------------- C15
Wrote(op, obj, val) ==
  \E j \in Idx : log[j].op = op /\ log[j].obj = obj /\ log[j].val = val /\ log[j].ok
DualToneReturnedZero == result = "returned" /\ pc = "dds_dual_tone" /\ ret = 0

\* C15: when dds_dual_tone returns 0, the four DDS channels of the TX channel
\* (altvoltage0, 2, 1, 3 for channel 0, altvoltage4, 6, 5, 7 otherwise) carry
\* the frequency and scale of their tone, both Q channels the phase 90000,
\* and all four channels are enabled.
C15_DualToneEnabled ==
  DualToneReturnedZero =>
    \A tone \in 1..2 :
      LET f == IF tone = 1 THEN args.freq_val1 ELSE args.freq_val2
          a == IF tone = 1 THEN args.scale_val1 ELSE args.scale_val2
          q == DDSChannel(args.channel, tone, "q")
      IN  /\ \A c \in {DDSChannel(args.channel, tone, "i"), q} :
                /\ Wrote("iio_channel_attr_write_longlong", c, f)
                /\ Wrote("iio_channel_attr_write_double", c, a)
                /\ Happened("iio_channel_enable", c, TRUE)
          /\ Wrote("iio_channel_attr_write_longlong", q \o ".phase", PHASE_90)

\* ---------------------------------------------------------------------- C16
\* the swap pass has run on the data of the last refill
SwapDone ==
  /\ prog \in ADRVPrograms /\ pc = "while"
  /\ \E i \in Idx : log[i].op = "iio_buffer_refill" /\ log[i].ok
FrameStarts == { p \in 1..Len(rawbuf) : (p - 1) % (iio_buffer_step \div sizeof_p_dat) = 0 }

\* C16: after each successful refill the pass of stream() over the RX buffer
\* has exchanged I and Q of every frame exactly once (element 0 of a frame
\* holds the former Q, element 1 the former I), has modified no element
\* outside the frames, and a second pass would restore the refilled buffer.
C16_IQSwapped ==
  SwapDone =>
    /\ Len(rxdata) = Len(rawbuf)
    /\ \A p \in FrameStarts : rxdata[p] = rawbuf[p + 1] /\ rxdata[p + 1] = rawbuf[p]
    /\ \A p \in 1..Len(rawbuf) :
         (p \notin FrameStarts /\ p - 1 \notin FrameStarts) => rxdata[p] = rawbuf[p]
    /\ SwapPass(rxdata, 0, iio_buffer_step \div sizeof_p_dat) = rawbuf
C16_Witness ==
  /\ SwapDone /\ prog = "adrv9002"
  /\ rawbuf = <<32767, -32768, -32768, 32767>>
  /\ rxdata = <<-32768, 32767, 32767, -32768>>

\* ---------------------------------------------------------------------- C17
\* the sample loop of the AD7768 example has run on the result of a raw read
AD7768_LoopRan ==
  /\ prog = "ad7768" /\ sample_size > 0
  /\ pc = "while" \/ result = "crash"

\* v is (w * 256) modulo 2^32 as a signed 32-bit integer
IsShl8(v, w) ==
  /\ v >= -(2 ^ 30) - 2 ^ 30 /\ v <= (2 ^ 30 - 1) + 2 ^ 30
  /\ v % (2 ^ 8) = 0
  /\ (v \div (2 ^ 8)) % (2 ^ 24) = w % (2 ^ 24)

\* C17: the AD7768 example prints, for each sample, the 32-bit raw word at
\* that index shifted left by 8 bits ((word * 256) modulo 2^32 as a signed
\* 32-bit integer), and it prints exactly bytes / sample_size values per
\* refill, bytes being the result of the raw read.
C17_ShiftedPrints ==
  AD7768_LoopRan =>
    /\ Len(printed) = bytes \div sample_size
    /\ Len(rawbuf) = Len(printed)
    /\ \A s \in 1..Len(printed) : IsShl8(printed[s], rawbuf[s])

\* ---------------------------------------------------------------------- C18
TwinPrograms == {"ad7768", "ad4696"}
IsModeReg(e) == e.op \in {"iio_device_reg_write", "iio_device_reg_read"} /\ e.obj = "0x400"
\* the trace without the register accesses of the AD4696 example
Common(l) == SelectSeq(l, LAMBDA e : ~IsModeReg(e))

\* One deterministic sequencer for both examples: in position st the next
\* library operation is fixed, and the position after it depends only on the
\* outcome of that operation (or on the stop flag at a loop test).
Delta(st, e) ==
  CASE st = "create" /\ e.op \in CreateOps -> IF e.ok THEN "count" ELSE "end"
    [] st = "count" /\ e.op = "iio_context_get_devices_count" -> IF e.ok THEN "device" ELSE "end"
    [] st = "device" /\ e.op = "iio_context_find_device" -> IF e.ok THEN "cfg_device" ELSE "end"
    [] st = "cfg_device" /\ e.op = "iio_context_find_device" -> IF e.ok THEN "cfg_channel" ELSE "end"
    [] st = "cfg_channel" /\ e.op = "iio_device_find_channel" -> IF e.ok THEN "channel" ELSE "end"
    [] st = "channel" /\ e.op = "iio_device_find_channel" -> IF e.ok THEN "enable" ELSE "end"
    [] st = "enable" /\ e.op = "iio_channel_enable" -> "buffer"
    [] st = "buffer" /\ e.op = "iio_device_create_buffer" -> IF e.ok THEN "test" ELSE "disable"
    [] st = "test" /\ e.op = "while" -> IF e.after_stop THEN "destroy" ELSE "refill"
    [] st = "refill" /\ e.op = "iio_buffer_refill" -> IF e.ok THEN "format" ELSE "destroy"
    [] st = "format" /\ e.op = "iio_channel_get_data_format" -> "malloc"
    [] st = "malloc" /\ e.op = "malloc" -> IF e.ok THEN "read" ELSE "destroy"
    [] st = "read" /\ e.op = "iio_channel_read_raw" -> "test"
    [] st = "destroy" /\ e.op = "iio_buffer_destroy" -> "disable"
    [] st = "disable" /\ e.op = "iio_channel_disable" -> "context"
    [] st = "context" /\ e.op = "iio_context_destroy" -> "end"
    [] OTHER -> "reject"
\* the first operation: the context is created when main has at most one
\* argument, else the run starts at the device count
Start == IF argc <= 2 THEN "create" ELSE "count"
RECURSIVE RunState(_, _, _)
RunState(l, i, st) == IF i > Len(l) THEN st ELSE RunState(l, i + 1, Delta(st, l[i]))

\* the register accesses of a trace sit between the second channel lookup
\* and the enable: the write, then the read-back
ModeRegPlaced(l) ==
  \A i \in 1..Len(l) :
    IsModeReg(l[i]) =>
      IF l[i].op = "iio_device_reg_write"
      THEN /\ RunState(Common(SubSeq(l, 1, i)), 1, Start) = "enable"
           /\ i < Len(l) /\ l[i + 1].op = "iio_device_reg_read"
           /\ l[i].val = MODE_REG_VAL
      ELSE /\ i > 1 /\ l[i - 1].op = "iio_device_reg_write"
           /\ i < Len(l) => l[i + 1].op = "iio_channel_enable"

C19_OneMiS == \A i \in BufferCreations : log[i].val = MiS

\* ---------------------------------------------------------------------- C20
\* bytes of the element the sample loop reads at each index: an int64_t in
\* AD4630 (the int32_t it writes at the same index is smaller), an int32_t
\* in AD7768, an int16_t in AD4696
ReadWidth == CASE prog = "ad4630" -> 8 [] prog = "ad7768" -> 4 [] prog = "ad4696" -> 2 [] OTHER -> 0

\* C20: in the three AD examples, for every data format with a sample size
\* of at least 1 and every non-negative result of the raw read, each element
\* the sample loop accesses at the indexes 0 .. bytes / sample_size - 1 lies
\* inside the sample_size * BUFFER_LENGTH bytes allocated.
C20_WithinAllocation ==
  (prog \in ADPrograms /\ sample_size >= 1 /\ bytes >= 0) =>
    \A index \in 0..((bytes \div sample_size) - 1) :
      (index + 1) * ReadWidth <= sample_size * BUFFER_LENGTH

\* ---------------------------------------------------------------------- C21
\* C21: in the three AD examples a raw read that returns zero or a negative
\* value makes the sample loop run zero iterations: the bound
\* bytes / sample_size is 0 then, it is never larger than BUFFER_LENGTH, and
\* the run goes on past the loop.
C21_NoIterations ==
  (prog \in ADPrograms /\ sample_size >= 1) =>
    /\ LoopBound(bytes, sample_size) <= BUFFER_LENGTH
    /\ bytes <= 0 => LoopBound(bytes, sample_size) = 0 /\ printed = <<>> /\ result # "crash"

\* ---------------------------------------------------------------------- C22
\* the library calls that are handed the context
ContextUses ==
  {"iio_context_get_devices_count", "iio_context_find_device", "iio_context_destroy"}

\* C22: no library call is made with a null context handle: for every
\* argument count, every call in the trace that is handed the context comes
\* after a creation of the context that succeeded.
C22_ContextNeverNull ==
  \A i \in Idx :
    log[i].op \in ContextUses =>
      \E j \in 1..(i - 1) : log[j].op \in CreateOps /\ log[j].ok

\* ---------------------------------------------------------------------- C23
Destroys(obj) ==
  { i \in Idx : log[i].op \in {"iio_buffer_destroy", "iio_context_destroy"} /\ log[i].obj = obj }
\* the calls of the trace that are handed the buffer obj
UsesBuffer(e, obj) ==
  \/ e.obj = obj /\ e.op \in {"iio_buffer_refill", "iio_buffer_push", "iio_buffer_first",
                                "iio_buffer_destroy"}
  \/ obj = "rxbuf" /\ e.op = "iio_channel_read_raw"

\* C23: whatever the interleaving of signals and call outcomes, the context
\* and each buffer are destroyed at most once, no call is handed a buffer
\* after its destruction, nothing at all is called after the context was
\* destroyed, and an ADRV9002 run that created its context and returned from
\* main has run cleanup() exactly once (its one unconditional
\* iio_context_destroy is in the trace once, as the last call).
C23_DestroyedOnce ==
  /\ \A obj \in {"ctx", "rxbuf", "txbuf"} : Cardinality(Destroys(obj)) <= 1
  /\ \A obj \in {"rxbuf", "txbuf"} :
       \A i \in Destroys(obj) : \A j \in (i + 1)..Len(log) : ~UsesBuffer(log[j], obj)
  /\ \A i \in Destroys("ctx") : i = Len(log) /\ Terminated /\ ctx = "freed"
  /\ \A i \in Idx : log[i].op = "iio_buffer_destroy" =>
       Before(i, "iio_device_create_buffer", log[i].obj, TRUE)
  /\ (prog \in ADRVPrograms /\ ContextCreated /\ result = "exit") =>
       Cardinality(Destroys("ctx")) = 1
\* a run with both buffers that streamed, was interrupted and cleaned up
C23_Witness ==
  /\ prog = "adrv9002" /\ result = "exit" /\ stop
  /\ Destroys("rxbuf") # {} /\ Destroys("txbuf") # {} /\ Destroys("ctx") = {Len(log)}
  /\ \E i \in Refills : log[i].ok

\* ---------------------------------------------------------------------- C24
Enables == { i \in Idx : log[i].op = "iio_channel_enable" }

\* C24: every channel a program has enabled (stream channels and DDS tone
\* channels alike) is disabled by the teardown before the context is
\* destroyed: each enable in the trace of a run that destroyed its context
\* is followed, before that destruction, by a disable of the same channel.
C24_EnabledAreDisabled ==
  \A d \in Destroys("ctx") :
    \A i \in Enables :
      \E j \in (i + 1)..(d - 1) :
        log[j].op = "iio_channel_disable" /\ log[j].obj = log[i].obj


============================================================================
